---- MODULE Spec2Model ----
(***************************************************************************)
(* Orchestration and execution-control engine of multi-agent-demo.         *)
(*                                                                         *)
(* One job is driven through the LangGraph graph of graph.py: the          *)
(* orchestrator node decides the next step, every step node returns to     *)
(* the orchestrator.  The job state is the AgentState dict (state.py); a   *)
(* node returns {**state, ...}, which is modelled as a record update.      *)
(* Every generation call (traced_call) is an input of the model: its       *)
(* content and whether it raised are chosen with \E at each call; the      *)
(* usage the backend reports per call is chosen once per job (none, or     *)
(* InputTokens + OutputTokens).                                            *)
(* Tokens are counted in tokens, costs in micro-dollars, time in seconds.  *)
(* The payload fields that no control decision reads (job_id, pages,       *)
(* endpoints, data_models, validation_report, model_used,                  *)
(* security_warnings) are left out of the record.                          *)
(***************************************************************************)
EXTENDS Integers, Sequences, FiniteSets, TLC

VARIABLES
    state,               \* the AgentState dict flowing through the graph
    node,                \* next graph node: an agent name, "END" or "RAISED"
    steps,               \* node executions so far (graph supersteps)
    last,                \* what the last node execution did (history)
    request_timestamps,  \* rate_limiter._request_timestamps[user_id]
    token_usage,         \* rate_limiter._token_usage[user_id], summed per timestamp
    now,                 \* time.time(), in seconds
    prompt_ok,           \* agent -> does its prompt still match its registered hash
    usage,               \* usage_metadata the backend reports for each call of this job
    job,                 \* the Job row of persistence/job_store.py
    call,                \* one traced_call invocation, attempt by attempt
    limiter,             \* check_rate_limit called by concurrent workers
    worker,              \* queue_worker.run_worker: the loop, its queue, the flag
    queue,               \* one LocalQueue received from by several threads
    store,               \* the jobs table of persistence/job_store.py
    writer,              \* tools/file_writer.write_artifacts, file by file
    probe                \* the argument and result of a guardrail function

\* the variables of the worker, queue, job table, writer and guardrail
\* specifications; they do not change while a job graph runs
aux == <<worker, queue, store, writer, probe>>

vars == <<state, node, steps, last, request_timestamps, token_usage, now, prompt_ok, usage, job,
          call, limiter, worker, queue, store, writer, probe>>

(***************************************************************************)
(* Bounds of the model.                                                    *)
(***************************************************************************)
\* token usage of a generation call that reports usage (input, output)
InputTokens == 8000
OutputTokens == 2000
\* the job's token_budget is SmallBudget or LargeBudget
SmallBudget == 25000
LargeBudget == 60000
\* max_retries of a job is in 0..MaxMaxRetries
MaxMaxRetries == 1
\* the clock advances in jumps of TickSeconds while now < MaxTime
TickSeconds == 61
MaxTime == 61
\* requests of the same caller already in the window when the job starts
PriorRequests == 8
\* check_rate_limit is called LimiterCalls times in all by the workers, the
\* clock they read advances by LimiterTickSeconds up to LimiterMaxClock
LimiterCalls == 4
LimiterTickSeconds == 30
LimiterMaxClock == 90
\* the queue of a worker holds up to MaxMessages messages when it starts and
\* hands out MaxDeliveries deliveries in all
MaxMessages == 2
MaxDeliveries == 3
\* the clock read by update_job runs from 0 to StoreMaxClock; update_job is
\* called StoreUpdates times in all
StoreMaxClock == 2
StoreUpdates == 3
\* a filename given to sandbox_file_path has up to MaxSegments segments
MaxSegments == 3
\* fe_code and be_code have up to MaxFiles entries each
MaxFiles == 2
\* an input text is put together from up to MaxPieces pieces
MaxPieces == 2
\* the orchestrator node runs up to MaxPasses times in a job whose
\* sanitization is followed
MaxPasses == 2

(***************************************************************************)
(* Program constants.                                                      *)
(***************************************************************************)
AGENT_TOKEN_LIMITS ==
    [orchestrator |-> 2000, planner |-> 10000, fe_executor |-> 30000,
     be_executor |-> 30000, validator |-> 15000]

RATE_LIMIT_REQUESTS_PER_MINUTE == 10
RequestWindow == 60
RATE_LIMIT_TOKENS_PER_HOUR == 500000
TokenWindow == 3600
recursion_limit == 25

\* MODEL_PRICING, in cents per 1M tokens
MODEL_PRICING ==
    [gpt_4o_mini |-> [input |-> 15, output |-> 60],
     gpt_4o |-> [input |-> 250, output |-> 1000],
     gpt_35_turbo |-> [input |-> 50, output |-> 150]]

\* MODEL_CHAIN: the backends tried in order on API errors
MODEL_CHAIN == <<"gpt_4o_mini", "gpt_4o", "gpt_35_turbo">>

Steps == {"planner", "fe_executor", "be_executor", "validator"}
Agents == Steps \cup {"orchestrator"}
RetryTargets == {"planner", "fe_executor", "be_executor"}

(***************************************************************************)
(* Python dict helpers: d.get(k, default) and d[k] = v on a copy.          *)
(***************************************************************************)
Get(d, k, default) == IF k \in DOMAIN d THEN d[k] ELSE default

Put(d, k, v) == [x \in (DOMAIN d) \cup {k} |-> IF x = k THEN v ELSE d[x]]

EmptyDict == [x \in {} |-> 0]

RECURSIVE SumOver(_, _)
SumOver(d, keys) ==
    IF keys = {} THEN 0
    ELSE LET k == CHOOSE x \in keys : TRUE
         IN d[k] + SumOver(d, keys \ {k})

SumValues(d) == SumOver(d, DOMAIN d)

(***************************************************************************)
(* scaling/config.py                                                       *)
(***************************************************************************)
\* round(x, 6) of a dollar amount = nearest micro-dollar, ties to even
RoundHalfEven(n, d) ==
    LET q == n \div d
        r == n % d
    IN  IF 2 * r < d THEN q
        ELSE IF 2 * r > d THEN q + 1
        ELSE IF q % 2 = 0 THEN q ELSE q + 1

calculate_cost(model, input_tokens, output_tokens) ==
    LET pricing == IF model \in DOMAIN MODEL_PRICING
                   THEN MODEL_PRICING[model]
                   ELSE [input |-> 0, output |-> 0]
    IN RoundHalfEven(input_tokens * pricing.input + output_tokens * pricing.output, 100)

(***************************************************************************)
(* scaling/rate_limiter.py                                                 *)
(***************************************************************************)
Prune(timestamps, t, window) == SelectSeq(timestamps, LAMBDA x : x > t - window)

\* check_rate_limit: the pruned window, and whether the call is admitted
check_rate_limit_admits(timestamps, t) ==
    Len(Prune(timestamps, t, RequestWindow)) < RATE_LIMIT_REQUESTS_PER_MINUTE

\* mutant: an admitted call is not recorded
check_rate_limit_window_unrecorded(timestamps, t) ==
    Prune(timestamps, t, RequestWindow)

check_rate_limit_window(timestamps, t) ==
    IF check_rate_limit_admits(timestamps, t)
    THEN Append(Prune(timestamps, t, RequestWindow), t)
    ELSE Prune(timestamps, t, RequestWindow)

\* record_token_usage: append (now, tokens); kept as the sum per timestamp
record_token_usage(recorded, t, tokens) == Put(recorded, t, Get(recorded, t, 0) + tokens)

\* check_token_rate_limit: is the usage recorded inside the window under the
\* hourly ceiling (no caller of it exists in the program)
check_token_rate_limit(recorded, t) ==
    SumOver(recorded, {x \in DOMAIN recorded : x > t - TokenWindow})
        < RATE_LIMIT_TOKENS_PER_HOUR

(***************************************************************************)
(* Generation calls: what traced_call may return.                          *)
(***************************************************************************)
Usages ==
    {[input_tokens |-> 0, output_tokens |-> 0],
     [input_tokens |-> InputTokens, output_tokens |-> OutputTokens]}

\* the next_agent values the routing step may answer
RoutingAnswers == Agents \cup {"done", "deploy"}

\* orchestrator responses: parseable JSON with next_agent, or not
RoutingResponses(u) ==
    {[usage |-> u, parseable |-> TRUE, next_agent |-> a] : a \in RoutingAnswers}
    \cup {[usage |-> u, parseable |-> FALSE, next_agent |-> ""]}

\* traced_call records on the response the backend that served it: the
\* backend of the first attempt, or the chain backend of a later attempt
ServedBy == {MODEL_CHAIN[i] : i \in 1..Len(MODEL_CHAIN)}

tokens_used(resp) == resp.usage.input_tokens + resp.usage.output_tokens

(***************************************************************************)
(* agents/orchestrator.py                                                  *)
(***************************************************************************)
fallback_routing(s) ==
    IF s.spec = "" THEN "planner"
    ELSE IF s.fe_code = {} THEN "fe_executor"
    ELSE IF s.be_code = {} THEN "be_executor"
    ELSE IF ~s.validation_passed /\ s.fe_code # {} /\ s.be_code # {} THEN "validator"
    ELSE "done"

\* the decision before the per-agent limit check (lines 67-72)
routing_choice(s, resp) ==
    IF resp.parseable THEN resp.next_agent ELSE fallback_routing(s)

\* mutant: the limit check with > in place of >=
limit_exceeded_strict(agent_tokens, next_agent) ==
    /\ next_agent \in DOMAIN AGENT_TOKEN_LIMITS
    /\ Get(agent_tokens, next_agent, 0) > AGENT_TOKEN_LIMITS[next_agent]

\* the per-agent token limit check (lines 74-77)
limit_exceeded(agent_tokens, next_agent) ==
    /\ next_agent \in DOMAIN AGENT_TOKEN_LIMITS
    /\ Get(agent_tokens, next_agent, 0) >= AGENT_TOKEN_LIMITS[next_agent]

\* mutant: the budget check placed before the retry check
hard_stop_budget_first(s, admitted) ==
    IF ~admitted THEN "rate_limit"
    ELSE IF s.total_tokens >= s.token_budget THEN "budget"
    ELSE IF s.retry_count >= s.max_retries THEN "max_retries"
    ELSE IF s.validation_passed THEN "validated"
    ELSE ""

\* mutant: the retry check with > in place of >=
hard_stop_one_more_retry(s, admitted) ==
    IF ~admitted THEN "rate_limit"
    ELSE IF s.retry_count > s.max_retries THEN "max_retries"
    ELSE IF s.total_tokens >= s.token_budget THEN "budget"
    ELSE IF s.validation_passed THEN "validated"
    ELSE ""

\* mutant: the retry check is left out
hard_stop_no_retry_check(s, admitted) ==
    IF ~admitted THEN "rate_limit"
    ELSE IF s.total_tokens >= s.token_budget THEN "budget"
    ELSE IF s.validation_passed THEN "validated"
    ELSE ""

\* the hard stops of lines 20-33; "" when none applies
hard_stop(s, admitted) ==
    IF ~admitted THEN "rate_limit"
    ELSE IF s.retry_count >= s.max_retries THEN "max_retries"
    ELSE IF s.total_tokens >= s.token_budget THEN "budget"
    ELSE IF s.validation_passed THEN "validated"
    ELSE ""

hard_stop_state(s, stop) ==
    IF stop = "rate_limit"
    THEN [s EXCEPT !.current_agent = "done", !.done = TRUE, !.error = "Rate limit exceeded"]
    ELSE IF stop = "max_retries"
    THEN [s EXCEPT !.current_agent = "done", !.done = TRUE, !.error = "Max retries exceeded"]
    ELSE IF stop = "budget"
    THEN [s EXCEPT !.current_agent = "done", !.done = TRUE, !.error = "Token budget exceeded"]
    ELSE [s EXCEPT !.current_agent = "done", !.done = TRUE]

\* the bookkeeping of the routing call (lines 55-65, 79-87)
routing_charged(s, resp, next_agent) ==
    LET call_cost == calculate_cost("gpt_4o_mini", resp.usage.input_tokens,
                                    resp.usage.output_tokens)
    IN [s EXCEPT !.current_agent = next_agent,
                 !.total_tokens = s.total_tokens + tokens_used(resp),
                 !.cost_usd = s.cost_usd + call_cost,
                 !.cost_breakdown = Put(s.cost_breakdown, "orchestrator",
                                        Get(s.cost_breakdown, "orchestrator", 0) + call_cost),
                 !.agent_tokens = Put(s.agent_tokens, "orchestrator",
                                      Get(s.agent_tokens, "orchestrator", 0) + tokens_used(resp)),
                 !.done = (next_agent = "done")]

\* mutant: retry_count bumped on every route to an earlier step
routed_state_retry_any(s, resp) ==
    LET choice == routing_choice(s, resp)
        new_state == routing_charged(s, resp, choice)
        next_agent == IF limit_exceeded(new_state.agent_tokens, choice) THEN "done" ELSE choice
    IN  IF next_agent \in RetryTargets
        THEN [routing_charged(s, resp, next_agent)
                EXCEPT !.retry_count = s.retry_count + 1, !.validation_target = ""]
        ELSE routing_charged(s, resp, next_agent)

\* mutant: the per-agent limit check is skipped
routed_state_no_override(s, resp) ==
    LET next_agent == routing_choice(s, resp)
    IN  IF s.validation_target # "" /\ next_agent \in RetryTargets
        THEN [routing_charged(s, resp, next_agent)
                EXCEPT !.retry_count = s.retry_count + 1, !.validation_target = ""]
        ELSE routing_charged(s, resp, next_agent)

\* lines 35-97: the routing call was made and returned resp
routed_state(s, resp) ==
    LET choice == routing_choice(s, resp)
        agent_tokens == routing_charged(s, resp, choice).agent_tokens
        next_agent == IF limit_exceeded(agent_tokens, choice) THEN "done" ELSE choice
        new_state == routing_charged(s, resp, next_agent)
    IN  IF s.validation_target # "" /\ next_agent \in RetryTargets
        THEN [new_state EXCEPT !.retry_count = s.retry_count + 1,
                               !.validation_target = ""]
        ELSE new_state

(***************************************************************************)
(* agents/planner.py, fe_executor.py, be_executor.py, validator.py         *)
(***************************************************************************)
\* mutant: the step's usage is not added to its agent_tokens entry
charged_skips_agent(s, agent, model, resp) ==
    LET call_cost == calculate_cost(model, resp.usage.input_tokens,
                                    resp.usage.output_tokens)
        used == tokens_used(resp)
    IN [s EXCEPT !.total_tokens = s.total_tokens + used,
                 !.cost_usd = s.cost_usd + call_cost,
                 !.cost_breakdown = Put(s.cost_breakdown, agent,
                                        Get(s.cost_breakdown, agent, 0) + call_cost),
                 !.agent_tokens = Put(s.agent_tokens, agent,
                                      Get(s.agent_tokens, agent, 0))]

\* mutant: the step's usage is not added to total_tokens
charged_forgets_total(s, agent, model, resp) ==
    LET call_cost == calculate_cost(model, resp.usage.input_tokens,
                                    resp.usage.output_tokens)
        used == tokens_used(resp)
    IN [s EXCEPT !.cost_usd = s.cost_usd + call_cost,
                 !.cost_breakdown = Put(s.cost_breakdown, agent,
                                        Get(s.cost_breakdown, agent, 0) + call_cost),
                 !.agent_tokens = Put(s.agent_tokens, agent,
                                      Get(s.agent_tokens, agent, 0) + used)]

\* mutant: the cost of the call is not added to cost_usd
charged_forgets_cost(s, agent, model, resp) ==
    LET call_cost == calculate_cost(model, resp.usage.input_tokens,
                                    resp.usage.output_tokens)
        used == tokens_used(resp)
    IN [s EXCEPT !.total_tokens = s.total_tokens + used,
                 !.cost_breakdown = Put(s.cost_breakdown, agent,
                                        Get(s.cost_breakdown, agent, 0) + call_cost),
                 !.agent_tokens = Put(s.agent_tokens, agent,
                                      Get(s.agent_tokens, agent, 0) + used)]

\* the bookkeeping every step does before it looks at the output
charged(s, agent, model, resp) ==
    LET call_cost == calculate_cost(model, resp.usage.input_tokens,
                                    resp.usage.output_tokens)
        used == tokens_used(resp)
    IN [s EXCEPT !.total_tokens = s.total_tokens + used,
                 !.cost_usd = s.cost_usd + call_cost,
                 !.cost_breakdown = Put(s.cost_breakdown, agent,
                                        Get(s.cost_breakdown, agent, 0) + call_cost),
                 !.agent_tokens = Put(s.agent_tokens, agent,
                                      Get(s.agent_tokens, agent, 0) + used)]

\* a planner response: the plan that comes with a spec lists one page, one
\* endpoint and one data model
Plan(u, valid, sp) ==
    [usage |-> u, valid |-> valid, spec |-> sp,
     pages |-> IF sp = "" THEN <<>> ELSE <<"page">>,
     endpoints |-> IF sp = "" THEN <<>> ELSE <<"endpoint">>,
     data_models |-> IF sp = "" THEN <<>> ELSE <<"data_model">>]

\* planner responses: schema-valid with a spec (possibly empty), or invalid
PlannerResponses(u) ==
    {Plan(u, TRUE, sp) : sp \in {"", "spec"}}
    \cup {Plan(u, FALSE, "")}

run_planner(s, resp) ==
    IF resp.valid
    THEN [charged(s, "planner", "gpt_4o_mini", resp)
            EXCEPT !.spec = resp.spec, !.pages = resp.pages,
                   !.endpoints = resp.endpoints,
                   !.data_models = resp.data_models, !.error = ""]
    ELSE [charged(s, "planner", "gpt_4o_mini", resp)
            EXCEPT !.error = "Planner output validation failed"]

\* executor responses: schema-valid filename -> code mapping (possibly empty)
ExecutorResponses(u) ==
    {[usage |-> u, model_used |-> m, valid |-> TRUE, files |-> f] :
        m \in ServedBy, f \in {{}, {"file"}}}
    \cup {[usage |-> u, model_used |-> m, valid |-> FALSE, files |-> {}] : m \in ServedBy}

\* mutant: a failed frontend run drops the spec the planner wrote
run_fe_executor_drops_spec(s, resp) ==
    IF resp.valid
    THEN [charged(s, "fe_executor", "gpt_4o_mini", resp)
            EXCEPT !.fe_code = resp.files, !.error = ""]
    ELSE [charged(s, "fe_executor", "gpt_4o_mini", resp)
            EXCEPT !.spec = "", !.error = "FE Executor output validation failed"]

run_fe_executor(s, resp) ==
    IF resp.valid
    THEN [charged(s, "fe_executor", "gpt_4o_mini", resp)
            EXCEPT !.fe_code = resp.files, !.error = ""]
    ELSE [charged(s, "fe_executor", "gpt_4o_mini", resp)
            EXCEPT !.error = "FE Executor output validation failed"]

run_be_executor(s, resp) ==
    IF resp.valid
    THEN [charged(s, "be_executor", resp.model_used, resp)
            EXCEPT !.be_code = resp.files, !.error = ""]
    ELSE [charged(s, "be_executor", resp.model_used, resp)
            EXCEPT !.error = "BE Executor output validation failed"]

\* validator responses: schema-valid {passed, report, target}, or invalid
ValidatorTargets == RetryTargets \cup {""}

ValidatorResponses(u) ==
    {[usage |-> u, model_used |-> m, valid |-> TRUE, passed |-> p, target |-> t] :
        m \in ServedBy, p \in BOOLEAN, t \in ValidatorTargets}
    \cup {[usage |-> u, model_used |-> m, valid |-> FALSE, passed |-> FALSE,
            target |-> ""] : m \in ServedBy}

run_validator(s, resp) ==
    IF resp.valid
    THEN [charged(s, "validator", resp.model_used, resp)
            EXCEPT !.validation_passed = resp.passed,
                   !.validation_target = resp.target,
                   !.error = ""]
    ELSE [charged(s, "validator", resp.model_used, resp)
            EXCEPT !.validation_passed = FALSE,
                   !.validation_target = "fe_executor",
                   !.error = "Validator output validation failed"]

(***************************************************************************)
(* graph.py                                                                *)
(***************************************************************************)
\* _guarded, lines 46-52: the prompt integrity check failed
integrity_failed_state(s, agent_name) ==
    [s EXCEPT !.error = "Prompt integrity check failed for " \o agent_name,
              !.current_agent = "done",
              !.done = TRUE]

route_after_orchestrator(s) ==
    IF s.current_agent \in Steps THEN s.current_agent ELSE "END"

(***************************************************************************)
(* persistence/job_store.py                                                *)
(***************************************************************************)
\* t is datetime.now(timezone.utc) of line 67; an error of "" is stored as
\* None, which the row shows as ""
update_job(row, s, t) ==
    [row EXCEPT !.status = IF s.error # "" THEN "failed" ELSE "completed",
                !.completed = TRUE,
                !.completed_at = t,
                !.total_tokens = s.total_tokens,
                !.cost_usd = s.cost_usd,
                !.retry_count = s.retry_count,
                !.validation_passed = s.validation_passed,
                !.error = s.error]

(***************************************************************************)
(* Initial state: main.run_interactive's initial_state and create_job.     *)
(***************************************************************************)
InitialState(max_retries, token_budget) ==
    [spec |-> "", pages |-> <<>>, endpoints |-> <<>>, data_models |-> <<>>,
     fe_code |-> {}, be_code |-> {},
     validation_passed |-> FALSE, validation_target |-> "",
     current_agent |-> "", retry_count |-> 0, max_retries |-> max_retries,
     total_tokens |-> 0, token_budget |-> token_budget,
     error |-> "", done |-> FALSE,
     cost_usd |-> 0, cost_breakdown |-> EmptyDict, agent_tokens |-> EmptyDict]

\* the prompts changed since register_prompt hashed them: none, or one
TamperSets == {{}} \cup {{a} : a \in Agents}

\* unvalidated: a retry was dispatched and the validator has not run since
NoLast ==
    [node |-> "none", path |-> "none", choice |-> "", parsed |-> FALSE,
     unvalidated |-> FALSE]

\* create_job: the row of a job that has started
NewJob ==
    [status |-> "running", completed |-> FALSE, completed_at |-> -1,
     total_tokens |-> 0, cost_usd |-> 0, retry_count |-> 0,
     validation_passed |-> FALSE, error |-> ""]

\* no traced_call invocation is being followed attempt by attempt
NoCall == [agent |-> "", override |-> "", attempt |-> 0, tried |-> <<>>, status |-> "idle"]

\* no worker is inside check_rate_limit
NoLimiter ==
    [lists |-> <<>>, current |-> 0, clock |-> 0, workers |-> {},
     th |-> <<>>, log |-> <<>>, calls |-> 0]

\* no worker loop, no shared queue, no job table, no writer and no guardrail
\* call is being followed
Idle == [pc |-> "none"]

AuxIdle ==
    /\ worker = Idle
    /\ queue = Idle
    /\ store = Idle
    /\ writer = Idle
    /\ probe = Idle

\* the caller's earlier jobs have recorded the hourly ceiling at time 0
PriorTokenUsage == [x \in {0} |-> RATE_LIMIT_TOKENS_PER_HOUR]

Init ==
    /\ \E m \in 0..MaxMaxRetries, b \in {SmallBudget, LargeBudget} :
          state = InitialState(m, b)
    /\ node = "orchestrator"
    /\ steps = 0
    /\ last = NoLast
    /\ \E k \in {0, PriorRequests} : request_timestamps = [i \in 1..k |-> 0]
    /\ token_usage \in {EmptyDict, PriorTokenUsage}
    /\ now = 0
    /\ \E bad \in TamperSets : prompt_ok = [a \in Agents |-> a \notin bad]
    /\ usage \in Usages
    \* a caller at the hourly token ceiling is explored for the job with the
    \* small budget and the most retries whose calls consume tokens, with no
    \* request before and no changed prompt
    /\ (token_usage # EmptyDict) =>
          /\ state.token_budget = SmallBudget
          /\ state.max_retries = MaxMaxRetries
          /\ usage.input_tokens > 0
          /\ request_timestamps = <<>>
          /\ \A a \in Agents : prompt_ok[a]
    \* a changed prompt is explored in the jobs whose calls consume tokens and
    \* whose caller has made no request before
    /\ (\E a \in Agents : ~prompt_ok[a]) =>
          (usage.input_tokens > 0 /\ request_timestamps = <<>>)
    /\ job = NewJob
    /\ call = NoCall
    /\ limiter = NoLimiter
    /\ AuxIdle

(***************************************************************************)
(* Node executions (graph.py _guarded wrapper around each agent function). *)
(***************************************************************************)
CanRun(agent) == node = agent /\ steps < recursion_limit

Ran(agent, path, choice, parsed) ==
    [node |-> agent, path |-> path, choice |-> choice, parsed |-> parsed,
     unvalidated |-> IF agent = "validator" /\ path \in {"valid", "invalid"}
                     THEN FALSE ELSE last.unvalidated]

\* run_orchestrator returned a routing decision; lines 89-97 may have
\* dispatched a retry
Routed(s, new_state, resp) ==
    [Ran("orchestrator",
         IF limit_exceeded(new_state.agent_tokens, routing_choice(s, resp))
         THEN "quota" ELSE "routed",
         routing_choice(s, resp), resp.parseable)
       EXCEPT !.unvalidated = @ \/ new_state.retry_count > s.retry_count]

\* the wrapper returns the integrity failure without calling the agent
IntegrityFailure(agent) ==
    /\ CanRun(agent)
    /\ ~prompt_ok[agent]
    /\ state' = integrity_failed_state(state, agent)
    /\ node' = IF agent = "orchestrator" THEN route_after_orchestrator(state')
               ELSE "orchestrator"
    /\ steps' = steps + 1
    /\ last' = Ran(agent, "integrity", "", FALSE)
    /\ UNCHANGED <<aux, call, limiter,request_timestamps, token_usage, now, prompt_ok, usage, job>>

\* traced_call exhausted the fallback chain: the exception leaves the graph
CallRaises(agent) ==
    /\ CanRun(agent)
    /\ prompt_ok[agent]
    /\ IF agent = "orchestrator"
       THEN /\ hard_stop(state, check_rate_limit_admits(request_timestamps, now)) = ""
            /\ request_timestamps' = check_rate_limit_window(request_timestamps, now)
       ELSE UNCHANGED request_timestamps
    /\ node' = "RAISED"
    /\ steps' = steps + 1
    /\ last' = Ran(agent, "raised", "", FALSE)
    /\ UNCHANGED <<aux, call, limiter,state, token_usage, now, prompt_ok, usage, job>>

OrchestratorStops ==
    /\ CanRun("orchestrator")
    /\ prompt_ok["orchestrator"]
    /\ LET admitted == check_rate_limit_admits(request_timestamps, now)
           stop == hard_stop(state, admitted)
       IN /\ stop # ""
          /\ state' = hard_stop_state(state, stop)
          /\ last' = Ran("orchestrator", stop, "", FALSE)
    /\ request_timestamps' = check_rate_limit_window(request_timestamps, now)
    /\ node' = route_after_orchestrator(state')
    /\ steps' = steps + 1
    /\ UNCHANGED <<aux, call, limiter,token_usage, now, prompt_ok, usage, job>>

OrchestratorRoutes ==
    /\ CanRun("orchestrator")
    /\ prompt_ok["orchestrator"]
    /\ hard_stop(state, check_rate_limit_admits(request_timestamps, now)) = ""
    /\ \E resp \in RoutingResponses(usage) :
          /\ state' = routed_state(state, resp)
          /\ token_usage' = record_token_usage(token_usage, now, tokens_used(resp))
          /\ last' = Routed(state, state', resp)
    /\ request_timestamps' = check_rate_limit_window(request_timestamps, now)
    /\ node' = route_after_orchestrator(state')
    /\ steps' = steps + 1
    /\ UNCHANGED <<aux, call, limiter,now, prompt_ok, usage, job>>

\* the routing answer is valid JSON but not an object (an array, a string, a
\* number, null): decision["next_agent"] raises TypeError, which the except
\* clause of lines 67-72 does not name; the request and the tokens are
\* already recorded, no state is returned
OrchestratorAnswerRaises ==
    /\ CanRun("orchestrator")
    /\ prompt_ok["orchestrator"]
    /\ hard_stop(state, check_rate_limit_admits(request_timestamps, now)) = ""
    /\ request_timestamps' = check_rate_limit_window(request_timestamps, now)
    /\ token_usage' = record_token_usage(token_usage, now,
                           usage.input_tokens + usage.output_tokens)
    /\ node' = "RAISED"
    /\ steps' = steps + 1
    /\ last' = Ran("orchestrator", "answer_raised", "", FALSE)
    /\ UNCHANGED <<aux, call, limiter, state, now, prompt_ok, usage, job>>

StepRuns(agent, new_state, resp) ==
    /\ state' = new_state
    /\ token_usage' = record_token_usage(token_usage, now, tokens_used(resp))
    /\ last' = Ran(agent, IF resp.valid THEN "valid" ELSE "invalid", "", FALSE)
    /\ node' = "orchestrator"
    /\ steps' = steps + 1
    /\ UNCHANGED <<aux, call, limiter,request_timestamps, now, prompt_ok, usage, job>>

PlannerNode ==
    /\ CanRun("planner")
    /\ prompt_ok["planner"]
    /\ \E resp \in PlannerResponses(usage) : StepRuns("planner", run_planner(state, resp), resp)

FeExecutorNode ==
    /\ CanRun("fe_executor")
    /\ prompt_ok["fe_executor"]
    /\ \E resp \in ExecutorResponses(usage) :
          StepRuns("fe_executor", run_fe_executor(state, resp), resp)

BeExecutorNode ==
    /\ CanRun("be_executor")
    /\ prompt_ok["be_executor"]
    /\ \E resp \in ExecutorResponses(usage) :
          StepRuns("be_executor", run_be_executor(state, resp), resp)

ValidatorNode ==
    /\ CanRun("validator")
    /\ prompt_ok["validator"]
    /\ \E resp \in ValidatorResponses(usage) :
          StepRuns("validator", run_validator(state, resp), resp)

\* graph.stream(..., {"recursion_limit": 25}): GraphRecursionError
RecursionLimit ==
    /\ node \in Agents
    /\ steps >= recursion_limit
    /\ node' = "RAISED"
    /\ last' = Ran("none", "recursion_limit", "", FALSE)
    /\ UNCHANGED <<aux, call, limiter,state, steps, request_timestamps, token_usage, now, prompt_ok, usage, job>>

\* main.run_interactive line 149, after the stream has ended
UpdateJob ==
    /\ node = "END"
    /\ ~job.completed
    /\ job' = update_job(job, state, now)
    /\ UNCHANGED <<aux, call, limiter,state, node, steps, last, request_timestamps, token_usage, now, prompt_ok, usage>>

\* main.run_interactive line 160, the last statement of the run
CallWriter ==
    /\ node = "END"
    /\ job.completed
    /\ writer = Idle
    /\ writer' = [pc |-> "called"]
    /\ UNCHANGED <<worker, queue, store, probe, call, limiter, state, node, steps, last,
                   request_timestamps, token_usage, now, prompt_ok, usage, job>>

(***************************************************************************)
(* Environment: time passes.  check_rate_limit reads the clock only to     *)
(* count the entries younger than the window, so the clock is advanced at  *)
(* the moments this changes a decision: when the caller's window is full.  *)
(***************************************************************************)
Tick ==
    /\ now < MaxTime
    /\ node = "orchestrator"
    /\ ~check_rate_limit_admits(request_timestamps, now)
    /\ now' = now + TickSeconds
    /\ UNCHANGED <<aux, call, limiter,state, node, steps, last, request_timestamps, token_usage, prompt_ok, usage, job>>

GraphStep ==
    \/ \E a \in Agents : IntegrityFailure(a)
    \/ \E a \in Agents : CallRaises(a)
    \/ OrchestratorStops
    \/ OrchestratorRoutes
    \/ OrchestratorAnswerRaises
    \/ PlannerNode
    \/ FeExecutorNode
    \/ BeExecutorNode
    \/ ValidatorNode
    \/ RecursionLimit

Next ==
    \/ GraphStep
    \/ UpdateJob
    \/ CallWriter
    \/ Tick

Spec == Init /\ [][Next]_vars

\* the graph runs its next node as long as there is one: every generation
\* call returns or raises
FairSpec == Spec /\ WF_vars(GraphStep)

(***************************************************************************)
(* One generation call followed attempt by attempt:                        *)
(* observability/langfuse_tracer.py traced_call, scaling/model_selector.py *)
(* get_model, and the step that made the call.                             *)
(***************************************************************************)
\* MODEL_OVERRIDE: unset, or the backend the operator forces
Overrides == {"", "gpt_4o"}

\* traced_call line 53: min(len(MODEL_CHAIN), 3)
max_attempts == IF Len(MODEL_CHAIN) < 3 THEN Len(MODEL_CHAIN) ELSE 3

\* mutant: the chain is not walked, every attempt takes its first backend
get_model_first(agent_name, attempt, override) ==
    IF override # "" THEN override ELSE MODEL_CHAIN[1]

\* get_model; MODEL_CHAIN is indexed from 1 here
get_model(agent_name, attempt, override) ==
    IF override # "" THEN override
    ELSE LET index == IF attempt < Len(MODEL_CHAIN) - 1 THEN attempt
                      ELSE Len(MODEL_CHAIN) - 1
         IN  MODEL_CHAIN[index + 1]

\* llm.model_name of the ChatOpenAI the step hands to traced_call:
\* be_executor and validator ask get_model, the others name gpt-4o-mini
llm_model_name(agent_name, override) ==
    IF agent_name \in {"be_executor", "validator"}
    THEN get_model(agent_name, 0, override)
    ELSE "gpt_4o_mini"

\* the backend an attempt goes to (traced_call lines 55-60)
attempt_model(agent_name, attempt, override) ==
    IF attempt > 0 THEN get_model(agent_name, attempt, override)
    ELSE llm_model_name(agent_name, override)

Attempted(c, ok) ==
    Append(c.tried, [model |-> attempt_model(c.agent, c.attempt, c.override),
                     ok |-> ok])

\* what the step makes of the response (the node's function)
node_result(agent, s, resp) ==
    CASE agent = "orchestrator" -> routed_state(s, resp)
      [] agent = "planner" -> run_planner(s, resp)
      [] agent = "fe_executor" -> run_fe_executor(s, resp)
      [] agent = "be_executor" -> run_be_executor(s, resp)
      [] agent = "validator" -> run_validator(s, resp)

\* the responses of a call of this agent served by backend m
CallResponses(agent, u, m) ==
    CASE agent = "orchestrator" -> RoutingResponses(u)
      [] agent = "planner" -> PlannerResponses(u)
      [] agent \in {"fe_executor", "be_executor"} ->
            {r \in ExecutorResponses(u) : r.model_used = m}
      [] agent = "validator" -> {r \in ValidatorResponses(u) : r.model_used = m}

\* a job after its first planner run: the state a later step starts from
PlannedState(u) ==
    run_planner(
        routed_state(InitialState(MaxMaxRetries, LargeBudget),
                     [usage |-> u, parseable |-> TRUE, next_agent |-> "planner"]),
        Plan(u, TRUE, "spec"))

\* a node is about to make its generation call
CallInit ==
    /\ usage \in Usages
    /\ node \in Agents
    /\ \E s \in {InitialState(MaxMaxRetries, LargeBudget), PlannedState(usage)} :
          state = IF node \in Steps THEN [s EXCEPT !.current_agent = node] ELSE s
    /\ steps = 0
    /\ last = NoLast
    /\ request_timestamps = <<>>
    /\ token_usage = EmptyDict
    /\ now = 0
    /\ prompt_ok = [a \in Agents |-> TRUE]
    /\ job = NewJob
    /\ \E o \in Overrides :
          call = [agent |-> node, override |-> o, attempt |-> 0, tried |-> <<>>,
                  status |-> "running", before |-> state]
    /\ limiter = NoLimiter
    /\ AuxIdle

\* the orchestrator's check_rate_limit has recorded the request before the call
CallWindow ==
    IF call.agent = "orchestrator"
    THEN check_rate_limit_window(request_timestamps, now)
    ELSE request_timestamps

\* traced_call lines 73-77: the attempt raised and another one follows
AttemptFails ==
    /\ call.status = "running"
    /\ call.attempt < max_attempts - 1
    /\ call' = [call EXCEPT !.tried = Attempted(call, FALSE),
                            !.attempt = call.attempt + 1]
    /\ UNCHANGED <<aux, limiter, state, node, steps, last, request_timestamps, token_usage,
                   now, prompt_ok, usage, job>>

\* traced_call lines 76-77: the last attempt raised, traced_call re-raises;
\* neither the step nor the wrapper catches it
ChainExhausted ==
    /\ call.status = "running"
    /\ call.attempt = max_attempts - 1
    /\ call' = [call EXCEPT !.tried = Attempted(call, FALSE), !.status = "raised"]
    /\ node' = "RAISED"
    /\ steps' = steps + 1
    /\ last' = Ran(call.agent, "raised", "", FALSE)
    /\ request_timestamps' = CallWindow
    /\ UNCHANGED <<aux, limiter, state, token_usage, now, prompt_ok, usage, job>>

\* traced_call lines 66-72: the attempt returned; the step goes on with the
\* response and its node returns the new state
CallReturns ==
    /\ call.status = "running"
    /\ call' = [call EXCEPT !.tried = Attempted(call, TRUE), !.status = "returned"]
    /\ \E resp \in CallResponses(call.agent, usage,
                                 attempt_model(call.agent, call.attempt, call.override)) :
          /\ state' = node_result(call.agent, state, resp)
          /\ token_usage' = record_token_usage(token_usage, now, tokens_used(resp))
          /\ last' = IF call.agent = "orchestrator"
                     THEN Routed(state, state', resp)
                     ELSE Ran(call.agent, IF resp.valid THEN "valid" ELSE "invalid",
                              "", FALSE)
    /\ node' = IF call.agent = "orchestrator" THEN route_after_orchestrator(state')
               ELSE "orchestrator"
    /\ steps' = steps + 1
    /\ request_timestamps' = CallWindow
    /\ UNCHANGED <<aux, limiter, now, prompt_ok, usage, job>>

CallNext ==
    \/ AttemptFails
    \/ ChainExhausted
    \/ CallReturns

CallSpec == CallInit /\ [][CallNext]_vars

(***************************************************************************)
(* Properties.                                                             *)
(***************************************************************************)
Terminated == node \in {"END", "RAISED"}

\* a node of the graph executes in this step
NodeRuns == steps' = steps + 1

\* run_orchestrator is entered in this step (the wrapper let it through)
OrchestratorRuns == node = "orchestrator" /\ NodeRuns /\ prompt_ok["orchestrator"]

Quota(a) == AGENT_TOKEN_LIMITS[a]

AtQuota(s, a) == a \in DOMAIN AGENT_TOKEN_LIMITS /\ Get(s.agent_tokens, a, 0) >= Quota(a)

CallTokens == usage.input_tokens + usage.output_tokens

\* C1: once a node has produced a state with done = TRUE, no further node
\* runs for the job and done never goes back to FALSE.
DoneIsTerminal == [][state.done => (state'.done /\ ~NodeRuns)]_vars

\* C2: after every node execution total_tokens equals the sum of the values
\* of agent_tokens.
TokensAccounted == state.total_tokens = SumValues(state.agent_tokens)

\* a schema-invalid validator run after several agents were charged
TokensAccountedWitness ==
    /\ last.node = "validator" /\ last.path = "invalid"
    /\ state.total_tokens > 0
    /\ Cardinality(DOMAIN state.agent_tokens) >= 4

\* C3: in every orchestrator invocation the checks rate limit, retries
\* exhausted, budget exhausted are evaluated in this order; when one holds
\* the decision is done, no routing call is made (the state changes only in
\* current_agent, done and error; no usage is recorded) and the error is that
\* of the first check that holds.
HardStopPrecedence ==
    [][OrchestratorRuns =>
        LET admitted == check_rate_limit_admits(request_timestamps, now)
            retries == state.retry_count >= state.max_retries
            budget == state.total_tokens >= state.token_budget
            first == IF ~admitted THEN "Rate limit exceeded"
                     ELSE IF retries THEN "Max retries exceeded"
                     ELSE "Token budget exceeded"
        IN  (~admitted \/ retries \/ budget) =>
               /\ state' = [state EXCEPT !.current_agent = "done", !.done = TRUE,
                                         !.error = first]
               /\ node' = "END"
               /\ token_usage' = token_usage]_vars

\* a rate-limited invocation in which the two later checks hold as well
HardStopPrecedenceWitness ==
    /\ last.node = "orchestrator" /\ last.path = "rate_limit"
    /\ state.error = "Rate limit exceeded"
    /\ state.retry_count >= state.max_retries
    /\ state.total_tokens >= state.token_budget

\* C4 as stated: the loop stops once retries are exhausted, or once the
\* budget is exhausted, or once any step's quota is hit: an orchestrator
\* invocation that starts in such a state dispatches no step.
LoopStopsAtFirstBound ==
    [][(OrchestratorRuns /\ (\/ state.retry_count >= state.max_retries
                             \/ state.total_tokens >= state.token_budget
                             \/ \E a \in Agents : AtQuota(state, a)))
          => node' \in {"END", "RAISED"}]_vars

\* C4 amended: every job terminates; an orchestrator invocation that starts
\* with retries or budget exhausted dispatches no step, and a step is
\* dispatched only while its own quota is not reached.
LoopTerminatesWithinBounds ==
    /\ <>Terminated
    /\ [](node \in Steps => ~AtQuota(state, node))
    /\ [][(OrchestratorRuns /\ (\/ state.retry_count >= state.max_retries
                                \/ state.total_tokens >= state.token_budget))
             => node' = "END"]_vars

\* the job ended on exhausted retries after a full retry cycle
LoopTerminatesWitness ==
    /\ node = "END" /\ last.path = "max_retries"
    /\ state.retry_count > 0 /\ state.retry_count = state.max_retries

GracefulBudgetStop ==
    (job.completed /\ last.node = "orchestrator" /\ last.path = "budget")
       => /\ state.done
          /\ state.error = ""
          /\ job.status = "budget-exceeded"

\* C7: after the validator reported a failure with retry target T, the
\* orchestrator's routing decision (here: taken from the default ordering)
\* dispatches T, bumps retry_count by 1 and clears validation_target.
RetryTargetDispatched ==
    [][(/\ OrchestratorRuns
        /\ last.node = "validator"
        /\ ~state.validation_passed
        /\ state.validation_target \in RetryTargets
        /\ last'.path = "routed" /\ ~last'.parsed)
          => /\ node' = state.validation_target
             /\ state'.retry_count = state.retry_count + 1
             /\ state'.validation_target = ""]_vars

\* C8: retry_count never decreases; it changes only by +1, only in an
\* orchestrator transition that dispatches planner, fe_executor or
\* be_executor while a failed validation's retry target is set.
RetryCountMonotone ==
    [][/\ state'.retry_count >= state.retry_count
       /\ state'.retry_count # state.retry_count =>
             /\ state'.retry_count = state.retry_count + 1
             /\ OrchestratorRuns
             /\ node' \in RetryTargets
             /\ ~state.validation_passed
             /\ state.validation_target # ""]_vars

\* the orchestrator has just bumped retry_count and dispatched a retry
RetryCountWitness ==
    /\ last.node = "orchestrator"
    /\ node \in RetryTargets
    /\ state.retry_count = 1

\* C9: when the step chosen by the routing decision is at or over its quota,
\* the orchestrator's decision is done and the step is not dispatched.
QuotaOverride ==
    (last.node = "orchestrator" /\ last.choice # "" /\ AtQuota(state, last.choice))
       => /\ state.done
          /\ state.current_agent = "done"
          /\ node = "END"

\* the routing step answered with a step that is at its quota
QuotaOverrideWitness ==
    /\ last.node = "orchestrator" /\ last.parsed
    /\ last.choice \in Steps
    /\ AtQuota(state, last.choice)
    /\ node = "END"

\* C10: after every node execution that returned, current_agent is a
\* registered step name or the sentinel done, and a job whose graph reached
\* END has done = TRUE.
CurrentAgentRegistered ==
    /\ (last.node \in Agents /\ last.path \notin {"raised", "answer_raised"})
          => state.current_agent \in Agents \cup {"done"}
    /\ node = "END" => state.done

\* C11: when the prompt integrity check fails for the step about to be
\* invoked, the job ends there: the graph is at END with the integrity error
\* in the state, and no node runs and nothing changes the job state after it.
IntegrityFailureEndsJob ==
    [][(last.path = "integrity")
          => (node = "END" /\ ~NodeRuns /\ state' = state)]_vars

\* C12: a generation call whose every attempt failed does not leave the
\* execution loop as an exception: the failure is turned into job state (an
\* error) and the graph goes on with the next orchestrator decision.
StepFailureBecomesState ==
    (last.path = "raised") => (node \in Agents /\ state.error # "")

\* C13: with no override set, one invocation makes at most
\* min(len(MODEL_CHAIN), 3) attempts, attempt k (from 0) goes to the backend
\* at index k of MODEL_CHAIN, every attempt before the last one made has
\* failed, the invocation has returned exactly when its last attempt
\* succeeded, and once it has returned (with schema-valid text or not) or
\* raised no further attempt is made.
ChainWalkedInOrder ==
    /\ [](call.override = "" =>
            /\ Len(call.tried) <= 3
            /\ Len(call.tried) <= Len(MODEL_CHAIN)
            /\ \A k \in 1..Len(call.tried) : call.tried[k].model = MODEL_CHAIN[k]
            /\ \A k \in 1..(Len(call.tried) - 1) : ~call.tried[k].ok
            /\ (call.status = "returned") <=>
                  (call.tried # <<>> /\ call.tried[Len(call.tried)].ok))
    /\ [][(call.status # "running") => (call' = call)]_vars

\* the third attempt returned text that failed the step's schema
ChainWalkedWitness ==
    /\ call.override = ""
    /\ call.status = "returned"
    /\ Len(call.tried) = 3
    /\ last.path = "invalid"

\* C14: with an override backend set, every attempt of every invocation
\* goes to the override backend.
OverrideUsedForEveryAttempt ==
    (call.override # "") =>
        \A k \in 1..Len(call.tried) : call.tried[k].model = call.override

\* C15: when a step's call fails on its first attempt and a later attempt
\* succeeds, the step completes like any other: its node returns to the
\* orchestrator, its agent_tokens entry and total_tokens grow by the usage of
\* the successful attempt, and the error field is the one the schema check of
\* the returned text gives (empty when the text is valid).
RetriedCallIsNormalSuccess ==
    (call.agent \in Steps /\ call.status = "returned" /\ Len(call.tried) > 1) =>
        /\ node = "orchestrator"
        /\ Get(state.agent_tokens, call.agent, 0) =
              Get(call.before.agent_tokens, call.agent, 0) + CallTokens
        /\ state.total_tokens = call.before.total_tokens + CallTokens
        /\ (last.path = "valid") => (state.error = "")
        /\ (last.path = "invalid") =>
              state.error \in {"Planner output validation failed",
                               "FE Executor output validation failed",
                               "BE Executor output validation failed",
                               "Validator output validation failed"}

\* the planner's first attempt failed, its second one returned a valid plan
RetriedCallWitness ==
    /\ call.agent = "planner"
    /\ call.status = "returned"
    /\ Len(call.tried) = 2
    /\ ~call.tried[1].ok
    /\ last.path = "valid"
    /\ state.agent_tokens["planner"] > 0
    /\ state.error = ""

\* C16: after a step's output failed schema validation the error field is
\* set and the next step the orchestrator dispatches is the failing step's
\* retry target: the planner for the planner and for an executor (its
\* upstream dependency), the recorded validation_target for the validator.
\* (Stated for the decision taken from the default ordering, which does not
\* depend on what the routing step answers.)
SchemaFailureRoutedToTarget ==
    [][(/\ OrchestratorRuns
        /\ last.node \in Steps /\ last.path = "invalid"
        /\ last'.path = "routed" /\ ~last'.parsed)
          => /\ state.error # ""
             /\ node' = IF last.node = "validator" THEN state.validation_target
                        ELSE "planner"]_vars

\* C17: when run_orchestrator gets a routing answer from which no next_agent
\* can be read (not JSON, or JSON without next_agent), its choice before the
\* quota check is the default ordering: planner if no plan is stored, else
\* fe_executor if no frontend files, else be_executor if no backend files,
\* else validator if validation has not passed, else done.
DefaultOrderingChosen ==
    [][(OrchestratorRuns /\ ~last'.parsed
            /\ last'.path \in {"routed", "quota", "answer_raised"})
          => /\ last'.path # "answer_raised"
             /\ last'.choice =
                   IF state.spec = "" THEN "planner"
                   ELSE IF state.fe_code = {} THEN "fe_executor"
                   ELSE IF state.be_code = {} THEN "be_executor"
                   ELSE IF ~state.validation_passed THEN "validator"
                   ELSE "done"]_vars

(***************************************************************************)
(* scaling/rate_limiter.py: check_rate_limit for one caller id, statement  *)
(* by statement, called by one worker or by two workers at the same time.  *)
(* limiter.lists is the heap of list objects, limiter.current the one that *)
(* _request_timestamps[user_id] is bound to; a worker holds its own now,   *)
(* the list it read at line 23 and the list it built at line 25.           *)
(* limiter.log is the history of returned calls (time read, result).       *)
(***************************************************************************)
LimiterWorkers == {"w1", "w2"}

IdleWorker == [pc |-> "idle", t |-> 0, ref |-> 0, filtered |-> <<>>]

\* mutant: the ceiling test of line 26 with > in place of >=
at_ceiling_strict(timestamps) == Len(timestamps) > RATE_LIMIT_REQUESTS_PER_MINUTE

\* line 26
at_ceiling(timestamps) == Len(timestamps) >= RATE_LIMIT_REQUESTS_PER_MINUTE

LimiterInit ==
    /\ \E ws \in {{"w1"}, LimiterWorkers}, k \in {0, PriorRequests} :
          limiter = [lists |-> <<[i \in 1..k |-> 0]>>, current |-> 1,
                     clock |-> 0, workers |-> ws,
                     th |-> [w \in ws |-> IdleWorker],
                     log |-> [i \in 1..k |-> [t |-> 0, ok |-> TRUE]],
                     calls |-> 0]
    /\ state = InitialState(MaxMaxRetries, LargeBudget)
    /\ node = "orchestrator"
    /\ steps = 0
    /\ last = NoLast
    /\ request_timestamps = <<>>
    /\ token_usage = EmptyDict
    /\ now = 0
    /\ prompt_ok = [a \in Agents |-> TRUE]
    /\ usage = [input_tokens |-> 0, output_tokens |-> 0]
    /\ job = NewJob
    /\ call = NoCall
    /\ AuxIdle

LimiterUnchanged ==
    UNCHANGED <<aux, state, node, steps, last, request_timestamps, token_usage,
                now, prompt_ok, usage, job, call>>

\* line 19: now = time.time()
ReadClock(w) ==
    /\ limiter.th[w].pc = "idle"
    /\ limiter.calls < LimiterCalls
    /\ limiter' = [limiter EXCEPT !.th[w].pc = "entry",
                                  !.th[w].t = limiter.clock,
                                  !.calls = @ + 1]
    /\ LimiterUnchanged

\* line 23: timestamps = _request_timestamps[user_id]
ReadEntry(w) ==
    /\ limiter.th[w].pc = "entry"
    /\ limiter' = [limiter EXCEPT !.th[w].pc = "prune",
                                  !.th[w].ref = limiter.current]
    /\ LimiterUnchanged

\* line 25, right-hand side: the list comprehension builds a new list
BuildPruned(w) ==
    /\ limiter.th[w].pc = "prune"
    /\ limiter' = [limiter EXCEPT
                      !.th[w].pc = "store",
                      !.th[w].ref = 0,
                      !.th[w].filtered =
                          Prune(limiter.lists[limiter.th[w].ref],
                                limiter.th[w].t, RequestWindow)]
    /\ LimiterUnchanged

\* line 25, assignment: the caller's entry is bound to the new list
StorePruned(w) ==
    /\ limiter.th[w].pc = "store"
    /\ limiter' = [limiter EXCEPT
                      !.th[w].pc = "check",
                      !.th[w].filtered = <<>>,
                      !.lists = Append(@, limiter.th[w].filtered),
                      !.current = Len(limiter.lists) + 1]
    /\ LimiterUnchanged

\* lines 26-27: at the ceiling the call returns False
CheckCeiling(w) ==
    /\ limiter.th[w].pc = "check"
    /\ limiter' =
          IF at_ceiling(limiter.lists[limiter.current])
          THEN [limiter EXCEPT
                   !.th[w] = IdleWorker,
                   !.log = Append(@, [t |-> limiter.th[w].t, ok |-> FALSE])]
          ELSE [limiter EXCEPT !.th[w].pc = "append"]
    /\ LimiterUnchanged

\* lines 28-30: the timestamp is appended to the list the entry is bound to
\* and the call returns True
AppendTimestamp(w) ==
    /\ limiter.th[w].pc = "append"
    /\ limiter' = [limiter EXCEPT
                      !.th[w] = IdleWorker,
                      !.lists[limiter.current] = Append(@, limiter.th[w].t),
                      !.log = Append(@, [t |-> limiter.th[w].t, ok |-> TRUE])]
    /\ LimiterUnchanged

\* time.time() advances
LimiterTick ==
    /\ limiter.clock + LimiterTickSeconds <= LimiterMaxClock
    /\ limiter' = [limiter EXCEPT !.clock = @ + LimiterTickSeconds]
    /\ LimiterUnchanged

LimiterNext ==
    \/ \E w \in limiter.workers : ReadClock(w)
    \/ \E w \in limiter.workers : ReadEntry(w)
    \/ \E w \in limiter.workers : BuildPruned(w)
    \/ \E w \in limiter.workers : StorePruned(w)
    \/ \E w \in limiter.workers : CheckCeiling(w)
    \/ \E w \in limiter.workers : AppendTimestamp(w)
    \/ LimiterTick

LimiterSpec == LimiterInit /\ [][LimiterNext]_vars

\* the timestamps of the admitted calls of the history, in order of return
AdmittedTimes ==
    LET ok == SelectSeq(limiter.log, LAMBDA e : e.ok)
    IN  [i \in 1..Len(ok) |-> ok[i].t]

Count(seq, x) == Cardinality({i \in 1..Len(seq) : seq[i] = x})

\* C18: for one caller whose calls are made one after the other: a call is
\* rejected exactly when the calls admitted before it with a timestamp
\* inside the 60 seconds before its own time number the ceiling (so the call
\* after N admitted ones in the window is rejected and admission resumes
\* once they have left the window), and between calls the caller's list
\* holds the admitted timestamps of the last call's window and nothing of a
\* rejected call.
SequentialWindow ==
    limiter.workers = {"w1"} =>
       /\ \A k \in 1..Len(limiter.log) :
             limiter.log[k].ok <=>
                Cardinality({j \in 1..(k - 1) :
                                /\ limiter.log[j].ok
                                /\ limiter.log[j].t > limiter.log[k].t - 60})
                   < RATE_LIMIT_REQUESTS_PER_MINUTE
       /\ (limiter.th["w1"].pc = "idle" /\ limiter.log # <<>>) =>
             limiter.lists[limiter.current] =
                SelectSeq(AdmittedTimes,
                          LAMBDA x : x > limiter.log[Len(limiter.log)].t - 60)

SequentialWindowWitness ==
    /\ limiter.workers = {"w1"}
    /\ \E i, j \in 1..Len(limiter.log) :
          /\ i < j
          /\ ~limiter.log[i].ok
          /\ limiter.log[j].ok
          /\ Cardinality({h \in 1..(i - 1) :
                limiter.log[h].ok /\ limiter.log[h].t > limiter.log[i].t - 60})
                = RATE_LIMIT_REQUESTS_PER_MINUTE

\* C19: for any interleaving of check_rate_limit calls of several workers
\* for the same caller id, the calls admitted inside any 60-second window
\* never number more than the ceiling, and every admitted timestamp that is
\* still inside the window is in the caller's list.
AdmissionAtomic ==
    /\ \A k \in 1..Len(AdmittedTimes) :
          Cardinality({j \in 1..Len(AdmittedTimes) :
                          /\ AdmittedTimes[j] > AdmittedTimes[k] - 60
                          /\ AdmittedTimes[j] <= AdmittedTimes[k]})
             <= RATE_LIMIT_REQUESTS_PER_MINUTE
    /\ \A k \in 1..Len(AdmittedTimes) :
          AdmittedTimes[k] > limiter.clock - 60 =>
             Count(limiter.lists[limiter.current], AdmittedTimes[k])
                >= Count(AdmittedTimes, AdmittedTimes[k])

\* C20: when run_orchestrator is entered for a caller whose token usage
\* recorded over the trailing 3600 seconds is at or over
\* RATE_LIMIT_TOKENS_PER_HOUR, it returns the rate-limit stop (done, error
\* "Rate limit exceeded", graph ends), whatever the caller's request count.
TokenWindowEnforced ==
    [][(/\ OrchestratorRuns
        /\ ~check_token_rate_limit(token_usage, now)
        /\ last'.path \notin {"raised", "answer_raised"})
          => /\ state'.done
             /\ state'.error = "Rate limit exceeded"
             /\ node' = "END"]_vars

(***************************************************************************)
(* scaling/queue_worker.py: run_worker, one worker process.  The SQS queue *)
(* is shared with the producers and holds the messages sent to it; the     *)
(* LocalQueue is built inside run_worker (line 108) and handed to nobody,  *)
(* so it stays empty.  A received SQS message is hidden until it is        *)
(* deleted or its visibility timeout passes (Redeliver).  What the graph   *)
(* and the writer do with a job is an input here: each returns or raises.  *)
(***************************************************************************)
Backends == {"local", "sqs"}
MessageKinds == {"job", "bad_json"}

\* mutant: the loop test does not read the flag
keep_polling_always(running) == TRUE

\* line 112: while _running
keep_polling(running) == running

\* lines 113-117: what receive_message may return: a message id, or 0 for
\* None; LocalQueue pops the head if there is one, SQS hands out any visible
\* message or comes back empty after its wait
receive_message(backend, visible) ==
    IF backend = "local"
    THEN IF visible # <<>> THEN {visible[1]} ELSE {0}
    ELSE {visible[i] : i \in 1..Len(visible)} \cup {0}

Without(seq, m) == SelectSeq(seq, LAMBDA x : x # m)

WorkerInit ==
    /\ \E b \in Backends, n \in 0..MaxMessages :
          \E kinds \in [1..n -> MessageKinds] :
             /\ (b = "local") => (n = 0)
             /\ worker = [backend |-> b, pc |-> "loop", running |-> TRUE,
                          kinds |-> kinds, visible |-> [i \in 1..n |-> i],
                          inflight |-> {}, deleted |-> {},
                          cur |-> 0, receipt |-> FALSE, outcome |-> "",
                          written |-> {}, failed |-> {},
                          deliveries |-> 0, late |-> 0]
    /\ state = InitialState(MaxMaxRetries, LargeBudget)
    /\ node = "orchestrator"
    /\ steps = 0
    /\ last = NoLast
    /\ request_timestamps = <<>>
    /\ token_usage = EmptyDict
    /\ now = 0
    /\ prompt_ok = [a \in Agents |-> TRUE]
    /\ usage = [input_tokens |-> 0, output_tokens |-> 0]
    /\ job = NewJob
    /\ call = NoCall
    /\ limiter = NoLimiter
    /\ queue = Idle
    /\ store = Idle
    /\ writer = Idle
    /\ probe = Idle

WorkerUnchanged ==
    UNCHANGED <<state, node, steps, last, request_timestamps, token_usage,
                now, prompt_ok, usage, job, call, limiter, queue, store,
                writer, probe>>

\* line 112: the flag is read once per iteration
LoopTest ==
    /\ worker.pc = "loop"
    /\ worker' = [worker EXCEPT
                     !.pc = IF keep_polling(worker.running)
                            THEN "receive" ELSE "stopped"]
    /\ WorkerUnchanged

\* lines 113-120: the bounded receive returns a message or None
Receive ==
    /\ worker.pc = "receive"
    /\ \E m \in receive_message(worker.backend, worker.visible) :
          worker' =
             IF m = 0 \/ worker.deliveries >= MaxDeliveries
             THEN [worker EXCEPT !.pc = "loop"]
             ELSE [worker EXCEPT
                      !.pc = "parse",
                      !.cur = m,
                      !.receipt = (worker.backend = "sqs"),
                      !.visible = Without(@, m),
                      !.inflight = IF worker.backend = "sqs"
                                   THEN @ \cup {m} ELSE @,
                      !.deliveries = @ + 1,
                      !.outcome = "",
                      !.late = IF worker.running THEN @ ELSE @ + 1]
    /\ WorkerUnchanged

Raised == [worker EXCEPT !.pc = "finally", !.outcome = "raised",
                         !.failed = @ \cup {worker.cur}]

\* line 124: json.loads(body)
ParseBody ==
    /\ worker.pc = "parse"
    /\ worker' = IF worker.kinds[worker.cur] = "bad_json"
                 THEN Raised
                 ELSE [worker EXCEPT !.pc = "graph"]
    /\ WorkerUnchanged

\* lines 125-128: graph.stream runs to END or raises
StreamGraph ==
    /\ worker.pc = "graph"
    /\ \E raises \in BOOLEAN :
          worker' = IF raises THEN Raised
                    ELSE [worker EXCEPT !.pc = "write"]
    /\ WorkerUnchanged

\* lines 130-131: write_fn(final_state) returns or raises
WriteFinalState ==
    /\ worker.pc = "write"
    /\ \E raises \in BOOLEAN :
          worker' = IF raises THEN Raised
                    ELSE [worker EXCEPT !.pc = "finally", !.outcome = "complete",
                                        !.written = @ \cup {worker.cur}]
    /\ WorkerUnchanged

\* lines 134-136: finally: if receipt: queue.delete_message(receipt)
Finally ==
    /\ worker.pc = "finally"
    /\ worker' = [worker EXCEPT
                     !.pc = "loop",
                     !.cur = 0,
                     !.receipt = FALSE,
                     !.deleted = IF worker.receipt THEN @ \cup {worker.cur} ELSE @,
                     !.inflight = IF worker.receipt THEN @ \ {worker.cur} ELSE @,
                     !.visible = IF worker.receipt THEN Without(@, worker.cur) ELSE @]
    /\ WorkerUnchanged

\* lines 92-95: _handle_sigterm runs between two bytecodes of the loop
Sigterm ==
    /\ worker.running
    /\ worker.pc # "stopped"
    /\ worker' = [worker EXCEPT !.running = FALSE]
    /\ WorkerUnchanged

\* SQS: the visibility timeout of a received message that is not deleted yet
\* passes (its processing takes longer) and the message can be received again
Redeliver ==
    /\ \E m \in worker.inflight :
          worker' = [worker EXCEPT !.inflight = @ \ {m},
                                   !.visible = Append(@, m)]
    /\ WorkerUnchanged

WorkerStep ==
    \/ LoopTest
    \/ Receive
    \/ ParseBody
    \/ StreamGraph
    \/ WriteFinalState
    \/ Finally

WorkerNext ==
    \/ WorkerStep
    \/ Sigterm
    \/ Redeliver

WorkerSpec == WorkerInit /\ [][WorkerNext]_vars

\* every statement of the loop returns: the receive is bounded by its wait,
\* the graph by its recursion limit
FairWorkerSpec == WorkerSpec /\ WF_vars(WorkerStep)

\* C21: when the processing of a received message has raised (bad JSON, an
\* error out of the graph, an error in the writer), the worker leaves the
\* message undeleted, so that the queue can deliver it again, and goes back
\* to the loop test.
FailedMessageNotAcknowledged ==
    [][(worker.pc = "finally" /\ worker.outcome = "raised"
           /\ worker'.pc # "finally")
          => /\ worker'.pc = "loop"
             /\ worker.cur \notin worker'.deleted]_vars

(***************************************************************************)
(* scaling/queue_worker.py: one queue received from by two workers at the  *)
(* same time: two threads on one LocalQueue object (receive_message        *)
(* statement by statement), or two worker processes on one SQS queue       *)
(* (the service hands out a visible message and hides it until it is       *)
(* deleted or its visibility timeout passes).                              *)
(***************************************************************************)
Receivers == {"w1", "w2"}

IdleReceiver == [pc |-> "idle", msg |-> 0]

QueueInit ==
    /\ \E b \in Backends, n \in 0..MaxMessages :
          queue = [backend |-> b, q |-> [i \in 1..n |-> i], inflight |-> {},
                   th |-> [w \in Receivers |-> IdleReceiver]]
    /\ state = InitialState(MaxMaxRetries, LargeBudget)
    /\ node = "orchestrator"
    /\ steps = 0
    /\ last = NoLast
    /\ request_timestamps = <<>>
    /\ token_usage = EmptyDict
    /\ now = 0
    /\ prompt_ok = [a \in Agents |-> TRUE]
    /\ usage = [input_tokens |-> 0, output_tokens |-> 0]
    /\ job = NewJob
    /\ call = NoCall
    /\ limiter = NoLimiter
    /\ worker = Idle
    /\ store = Idle
    /\ writer = Idle
    /\ probe = Idle

QueueUnchanged ==
    UNCHANGED <<state, node, steps, last, request_timestamps, token_usage,
                now, prompt_ok, usage, job, call, limiter, worker, store,
                writer, probe>>

\* LocalQueue lines 35-36: the receive is entered, the deadline has not passed
LocalEnter(w) ==
    /\ queue.backend = "local"
    /\ queue.th[w].pc = "idle"
    /\ queue' = [queue EXCEPT !.th[w].pc = "check"]
    /\ QueueUnchanged

\* LocalQueue line 37: if self._q; lines 41, 36 and 42 when it is empty: sleep,
\* test the deadline again, return None once it has passed
LocalCheck(w) ==
    /\ queue.th[w].pc = "check"
    /\ \E timeout \in BOOLEAN :
          queue' = [queue EXCEPT
                       !.th[w].pc = IF queue.q # <<>> THEN "pop"
                                    ELSE IF timeout THEN "idle" ELSE "check"]
    /\ QueueUnchanged

\* LocalQueue lines 38-40: self._q.popleft(); IndexError on an empty deque
LocalPop(w) ==
    /\ queue.th[w].pc = "pop"
    /\ queue' = IF queue.q # <<>>
                THEN [queue EXCEPT !.th[w] = [pc |-> "processing", msg |-> queue.q[1]],
                                   !.q = Tail(@)]
                ELSE [queue EXCEPT !.th[w].pc = "IndexError"]
    /\ QueueUnchanged

\* SQSQueue lines 68-79: receive_message returns a visible message, which the
\* service hides, or nothing
SqsReceive(w) ==
    /\ queue.backend = "sqs"
    /\ queue.th[w].pc = "idle"
    /\ \E m \in receive_message("sqs", queue.q) \ {0} :
          queue' = [queue EXCEPT !.th[w] = [pc |-> "processing", msg |-> m],
                                 !.q = Without(@, m),
                                 !.inflight = @ \cup {m}]
    /\ QueueUnchanged

\* SQS: the visibility timeout of a hidden message passes
VisibilityTimeout ==
    /\ \E m \in queue.inflight :
          queue' = [queue EXCEPT !.inflight = @ \ {m}, !.q = Append(@, m)]
    /\ QueueUnchanged

\* run_worker lines 122-136: the job has been processed; delete_message
JobProcessed(w) ==
    /\ queue.th[w].pc = "processing"
    /\ queue' = IF queue.backend = "sqs"
                THEN [queue EXCEPT !.th[w] = IdleReceiver,
                                   !.inflight = @ \ {queue.th[w].msg},
                                   !.q = Without(@, queue.th[w].msg)]
                ELSE [queue EXCEPT !.th[w] = IdleReceiver]
    /\ QueueUnchanged

QueueNext ==
    \/ \E w \in Receivers : LocalEnter(w)
    \/ \E w \in Receivers : LocalCheck(w)
    \/ \E w \in Receivers : LocalPop(w)
    \/ \E w \in Receivers : SqsReceive(w)
    \/ \E w \in Receivers : JobProcessed(w)
    \/ VisibilityTimeout

QueueSpec == QueueInit /\ [][QueueNext]_vars

\* C22: with two workers receiving from one queue at the same time, no
\* message is being processed by both of them, and a receive on the local
\* queue ends with a message or with None, never with an exception.
MessageToOneWorker ==
    /\ \A v, w \in Receivers :
          (v # w /\ queue.th[v].pc = "processing" /\ queue.th[w].pc = "processing")
             => queue.th[v].msg # queue.th[w].msg
    /\ \A w \in Receivers : queue.th[w].pc # "IndexError"

\* C23 (as claimed): once the shutdown flag is set the worker receives no
\* message any more, and the loop eventually exits.
ShutdownStartsNoJob ==
    /\ [](worker.late = 0)
    /\ (~worker.running ~> worker.pc = "stopped")

\* C23: the flag is read at the loop test only.  After it is set the worker
\* begins no new poll iteration; the one receive that was already waiting
\* when the signal came may still hand over a message, so at most one job is
\* started after the flag is set; a job in flight is never cut short: the
\* loop is left only at the loop test, and a job whose graph and writer
\* returned has its artifacts written and its SQS message deleted; and the
\* loop eventually exits.
ShutdownFinishesInFlight ==
    /\ [](worker.late <= 1)
    /\ [][(worker'.pc = "stopped" /\ worker.pc # "stopped")
             => (worker.pc = "loop" /\ ~worker.running)]_vars
    /\ [][(~worker.running /\ worker.pc = "loop" /\ worker'.pc # "loop")
             => worker'.pc = "stopped"]_vars
    /\ [][(worker.pc = "finally" /\ worker'.pc = "loop"
              /\ worker.outcome = "complete")
             => /\ worker.cur \in worker'.written
                /\ (worker.backend = "sqs" => worker.cur \in worker'.deleted)]_vars
    /\ (~worker.running ~> worker.pc = "stopped")

ShutdownWitness ==
    /\ ~worker.running
    /\ worker.pc = "stopped"
    /\ worker.late = 1
    /\ worker.written # {}
    /\ worker.written \subseteq worker.deleted

(***************************************************************************)
(* persistence/job_store.py: the jobs table with the row of one job, and   *)
(* update_job applied to it any number of times (a redelivered job ends    *)
(* more than once) with a known or an unknown job id.  store.applied is    *)
(* the final state of the last update of the known job (history).          *)
(***************************************************************************)
JobIds == {"job1", "unknown"}

\* final states a job may end with
FinalStates ==
    {[InitialState(MaxMaxRetries, SmallBudget) EXCEPT
         !.done = TRUE, !.current_agent = "done", !.error = e,
         !.total_tokens = n, !.retry_count = r, !.validation_passed = v] :
       e \in {"", "Max retries exceeded"}, n \in {0, InputTokens + OutputTokens},
       r \in 0..MaxMaxRetries, v \in BOOLEAN}

\* update_job lines 59-79 on the table: no row, no change
update_job_in(rows, job_id, s, t) ==
    IF job_id \notin DOMAIN rows THEN rows
    ELSE [rows EXCEPT ![job_id] = update_job(@, s, t)]

StoreInit ==
    /\ store = [rows |-> [id \in {"job1"} |-> NewJob], clock |-> 0,
                applied |-> <<>>, id |-> "", updates |-> 0]
    /\ state \in FinalStates
    /\ node = "END"
    /\ steps = 0
    /\ last = NoLast
    /\ request_timestamps = <<>>
    /\ token_usage = EmptyDict
    /\ now = 0
    /\ prompt_ok = [a \in Agents |-> TRUE]
    /\ usage = [input_tokens |-> 0, output_tokens |-> 0]
    /\ job = NewJob
    /\ call = NoCall
    /\ limiter = NoLimiter
    /\ worker = Idle
    /\ queue = Idle
    /\ writer = Idle
    /\ probe = Idle

StoreUnchanged ==
    UNCHANGED <<node, steps, last, request_timestamps, token_usage,
                now, prompt_ok, usage, job, call, limiter, worker, queue,
                writer, probe>>

\* update_job(job_id, final_state)
ApplyUpdate(job_id) ==
    /\ store.updates < StoreUpdates
    /\ store' = [store EXCEPT
                    !.updates = @ + 1,
                    !.rows = update_job_in(@, job_id, state, store.clock),
                    !.applied = IF job_id = "job1" THEN <<state>> ELSE @,
                    !.id = job_id]
    /\ UNCHANGED state
    /\ StoreUnchanged

\* a job of this id ends with another final state
AnotherFinalState ==
    /\ state' \in FinalStates \ {state}
    /\ UNCHANGED store
    /\ StoreUnchanged

\* datetime.now advances
StoreTick ==
    /\ store.clock < StoreMaxClock
    /\ store' = [store EXCEPT !.clock = @ + 1]
    /\ UNCHANGED state
    /\ StoreUnchanged

StoreNext ==
    \/ \E id \in JobIds : ApplyUpdate(id)
    \/ AnotherFinalState
    \/ StoreTick

StoreSpec == StoreInit /\ [][StoreNext]_vars

\* C24: applying update_job again with the final state it was last applied
\* with leaves every field of the job's row as it was, and update_job for an
\* unknown job id changes no row.
UpdateJobIdempotent ==
    [][(store'.updates = store.updates + 1)
          => /\ (store'.id = "job1" /\ store.applied = <<state>>)
                   => store'.rows = store.rows
             /\ (store'.id = "unknown") => store'.rows = store.rows]_vars

\* the interactive run is over: run_interactive has returned after its last
\* statement, or an exception out of graph.stream has left it
RunOver == node = "RAISED" \/ (node = "END" /\ writer # Idle)

\* C25: a job whose run is over has a terminal status recorded on its row
\* (completed, failed or budget-exceeded, never running), with a non-empty
\* error exactly when the status is failed.
TerminalStatusRecorded ==
    RunOver =>
       /\ job.status \in {"completed", "failed", "budget-exceeded"}
       /\ (job.error # "") <=> (job.status = "failed")

\* C26: whatever ended the job, once its run is over the artifact writer has
\* been called with the last job state.
ArtifactsHandedToWriter == RunOver => writer = [pc |-> "called"]

\* C27: a job never executes more than recursion_limit nodes, and a job
\* stopped by that ceiling has a runaway error recorded on its row, which is
\* neither the retry-exhausted nor the budget-exceeded outcome.
RunawayRecorded ==
    /\ steps <= recursion_limit
    /\ (last.path = "recursion_limit") =>
          /\ job.status = "failed"
          /\ job.error \notin {"", "Max retries exceeded", "Token budget exceeded"}

(***************************************************************************)
(* security/guardrails.py: sandbox_file_path.  A path is the sequence of   *)
(* its segments and a segment is the sequence of its characters, so that   *)
(* str(path) and str.startswith are computed on characters as the code     *)
(* does.  No segment is a symbolic link.                                   *)
(***************************************************************************)
DotDot == <<".", ".">>
Dot == <<".">>
SegFile == <<"x">>

\* _SANDBOX_ROOT (line 93): <package directory>/output, already resolved
SANDBOX_ROOT == <<<<"a", "p", "p">>, <<"o", "u", "t", "p", "u", "t">>>>

\* the segments of the filenames tried: "..", ".", those of the sandbox
\* root, a sibling of the root whose name begins with the root's, a file
Segments ==
    {DotDot, Dot, SANDBOX_ROOT[1], SANDBOX_ROOT[2],
     <<"o", "u", "t", "p", "u", "t", "2">>, SegFile}

RECURSIVE SeqsUpTo(_, _)
SeqsUpTo(S, n) ==
    IF n = 0 THEN {<<>>}
    ELSE LET shorter == SeqsUpTo(S, n - 1)
         IN  shorter \cup {Append(p, x) : p \in shorter, x \in S}

\* the filenames tried: relative or absolute, up to MaxSegments segments
Filenames ==
    {[absolute |-> a, segs |-> p] : a \in BOOLEAN, p \in SeqsUpTo(Segments, MaxSegments)}

\* pathlib: root / filepath; an absolute right operand replaces the left one
JoinPath(root, filepath) ==
    IF filepath.absolute THEN filepath.segs ELSE root \o filepath.segs

\* Path.resolve(): "." is dropped, ".." removes the segment before it (none
\* above the filesystem root)
RECURSIVE Resolve(_, _)
Resolve(done, rest) ==
    IF rest = <<>> THEN done
    ELSE IF Head(rest) = Dot THEN Resolve(done, Tail(rest))
    ELSE IF Head(rest) = DotDot
         THEN Resolve(IF done = <<>> THEN done ELSE SubSeq(done, 1, Len(done) - 1),
                      Tail(rest))
    ELSE Resolve(Append(done, Head(rest)), Tail(rest))

\* str(path): "/" before every segment, "/" alone for the filesystem root
RECURSIVE PathStr(_)
PathStr(segs) ==
    IF segs = <<>> THEN <<>>
    ELSE <<"/">> \o Head(segs) \o PathStr(Tail(segs))

str(segs) == IF segs = <<>> THEN <<"/">> ELSE PathStr(segs)

startswith(text, prefix) ==
    /\ Len(prefix) <= Len(text)
    /\ SubSeq(text, 1, Len(prefix)) = prefix

\* line 102
path_allowed(resolved) == startswith(str(resolved), str(Resolve(<<>>, SANDBOX_ROOT)))

\* lines 101-106: the resolved path, or ValueError
sandbox_file_path(filepath) ==
    LET resolved == Resolve(<<>>, JoinPath(SANDBOX_ROOT, filepath))
    IN  IF path_allowed(resolved)
        THEN [raised |-> FALSE, path |-> resolved]
        ELSE [raised |-> TRUE, path |-> <<>>]

ProbeUnchanged ==
    UNCHANGED <<state, node, steps, last, request_timestamps, token_usage,
                now, prompt_ok, usage, job, call, limiter, worker, queue,
                store, writer>>

PathInit ==
    /\ \E f \in Filenames :
          probe = [pc |-> "call", filepath |-> f,
                   result |-> [raised |-> FALSE, path |-> <<>>]]
    /\ state = InitialState(MaxMaxRetries, LargeBudget)
    /\ node = "orchestrator"
    /\ steps = 0
    /\ last = NoLast
    /\ request_timestamps = <<>>
    /\ token_usage = EmptyDict
    /\ now = 0
    /\ prompt_ok = [a \in Agents |-> TRUE]
    /\ usage = [input_tokens |-> 0, output_tokens |-> 0]
    /\ job = NewJob
    /\ call = NoCall
    /\ limiter = NoLimiter
    /\ worker = Idle
    /\ queue = Idle
    /\ store = Idle
    /\ writer = Idle

CheckPath ==
    /\ probe.pc = "call"
    /\ probe' = [probe EXCEPT !.pc = "done",
                              !.result = sandbox_file_path(probe.filepath)]
    /\ ProbeUnchanged

PathNext == CheckPath

PathSpec == PathInit /\ [][PathNext]_vars

\* the sandbox root is a proper prefix, segment by segment, of the path
StrictlyInside(segs) ==
    /\ Len(segs) > Len(SANDBOX_ROOT)
    /\ SubSeq(segs, 1, Len(SANDBOX_ROOT)) = SANDBOX_ROOT

\* the path is neither the sandbox root nor below it
Outside(segs) ==
    \/ Len(segs) < Len(SANDBOX_ROOT)
    \/ SubSeq(segs, 1, Len(SANDBOX_ROOT)) # SANDBOX_ROOT

\* C28: sandbox_file_path raises for every filename whose resolved path is
\* outside the sandbox root, a sibling directory whose name begins with the
\* root's name included, and returns the resolved path for every filename
\* that resolves strictly inside the root.
PathSandboxed ==
    probe.pc = "done" =>
       LET resolved == Resolve(<<>>, JoinPath(SANDBOX_ROOT, probe.filepath))
       IN  /\ Outside(resolved) => probe.result.raised
           /\ StrictlyInside(resolved) =>
                 (~probe.result.raised /\ probe.result.path = resolved)

(***************************************************************************)
(* tools/file_writer.py: write_artifacts, one file at a time.  fe_code and *)
(* be_code are dicts, so a batch lists each filename once, in insertion    *)
(* order; the files written so far are the set of their resolved paths.    *)
(***************************************************************************)
\* the names write_artifacts writes under: lines 29, 36, 42, 49
Artifact ==
    [frontend |-> <<"f", "r", "o", "n", "t", "e", "n", "d">>,
     backend |-> <<"b", "a", "c", "k", "e", "n", "d">>,
     spec |-> <<"S", "P", "E", "C", ".", "m", "d">>,
     report |-> <<"V", "A", "L", "I", "D", "A", "T", "I", "O", "N", "_",
                  "R", "E", "P", "O", "R", "T", ".", "m", "d">>]

\* the keys an executor may return: two plain names and one that climbs out
\* of frontend/ (or backend/) and out of the sandbox root
CodeKeys == {<<SegFile>>, <<<<"y">>>>, <<DotDot, DotDot, SegFile>>}

\* the key lists of a dict of at most MaxFiles entries
KeyLists ==
    {ks \in SeqsUpTo(CodeKeys, MaxFiles) :
        \A i, j \in 1..Len(ks) : i # j => ks[i] # ks[j]}

\* f"frontend/{filepath}" (line 29), f"backend/{filepath}" (line 36)
Under(dir, key) == [absolute |-> FALSE, segs |-> <<dir>> \o key]

\* lines 29-31, 36-38, 42, 49: sandbox_file_path(...) then write_text; a
\* ValueError from sandbox_file_path is not caught and leaves write_artifacts
write_file(w, filepath) ==
    LET dest == sandbox_file_path(filepath)
    IN  IF dest.raised
        THEN [w EXCEPT !.pc = "ValueError"]
        ELSE [w EXCEPT !.written = @ \cup {dest.path}]

WriterUnchanged ==
    UNCHANGED <<state, node, steps, last, request_timestamps, token_usage,
                now, prompt_ok, usage, job, call, limiter, worker, queue,
                store, probe>>

\* security/guardrails.py lines 111-117: the risky patterns, by name; the
\* content of a file is the set of the patterns that pattern.search finds in it
RISKY_PATTERNS == {"eval", "exec", "subprocess", "os.system", "__import__"}

\* the contents an executor may return: clean code, and code with two hits
Contents == {{}, {"eval", "subprocess"}}

\* the contents of the files of a key list, one per key
ContentLists(ks) == {cs \in SeqsUpTo(Contents, MaxFiles) : Len(cs) = Len(ks)}

\* line 16: all_code = {**fe_code, **be_code}; a backend entry replaces the
\* frontend entry of the same filename
all_code(w) ==
    LET fe == {w.fe_code[i] : i \in 1..Len(w.fe_code)}
        be == {w.be_code[i] : i \in 1..Len(w.be_code)}
        at(ks, cs, k) == cs[CHOOSE i \in 1..Len(ks) : ks[i] = k]
    IN  [k \in fe \cup be |->
            IF k \in be THEN at(w.be_code, w.be_text, k)
            ELSE at(w.fe_code, w.fe_text, k)]

\* guardrails.py lines 120-133: one warning per file and pattern found in it
human_review_gate(code_artifacts) ==
    {fp \in (DOMAIN code_artifacts) \X RISKY_PATTERNS :
        fp[2] \in code_artifacts[fp[1]]}

\* the gate, with the pause taken out
review_pause_skipped(warnings, review) == FALSE

\* lines 18-24: input() is reached when there are warnings and
\* require_human_review() (guardrails.py 136-138) is true
review_pause(warnings, review) == warnings # {} /\ review

WriterInit ==
    /\ \E fe \in KeyLists, be \in KeyLists, sp \in BOOLEAN, rv \in BOOLEAN :
       \E ft \in ContentLists(fe), bt \in ContentLists(be) :
          writer = [pc |-> "scan", fe_code |-> fe, be_code |-> be,
                    fe_text |-> ft, be_text |-> bt,
                    spec |-> sp, i |-> 1, written |-> {},
                    review |-> rv, warnings |-> {}, confirmed |-> FALSE,
                    security_warnings |-> {}]
    /\ state = InitialState(MaxMaxRetries, LargeBudget)
    /\ node = "orchestrator"
    /\ steps = 0
    /\ last = NoLast
    /\ request_timestamps = <<>>
    /\ token_usage = EmptyDict
    /\ now = 0
    /\ prompt_ok = [a \in Agents |-> TRUE]
    /\ usage = [input_tokens |-> 0, output_tokens |-> 0]
    /\ job = NewJob
    /\ call = NoCall
    /\ limiter = NoLimiter
    /\ worker = Idle
    /\ queue = Idle
    /\ store = Idle
    /\ probe = Idle

\* lines 15-24: the scan; the warnings are printed (line 20), the state key
\* security_warnings (main.py line 109) is not assigned
Scan ==
    /\ writer.pc = "scan"
    /\ LET warnings == human_review_gate(all_code(writer))
       IN  writer' = [writer EXCEPT
                         !.warnings = warnings,
                         !.pc = IF review_pause(warnings, writer.review)
                                THEN "input" ELSE "frontend"]
    /\ WriterUnchanged

\* line 24: Enter is pressed, input() returns
Confirm ==
    /\ writer.pc = "input"
    /\ writer' = [writer EXCEPT !.pc = "frontend", !.confirmed = TRUE]
    /\ WriterUnchanged

\* line 24: Ctrl+C, input() raises and write_artifacts is left
Interrupt ==
    /\ writer.pc = "input"
    /\ writer' = [writer EXCEPT !.pc = "KeyboardInterrupt"]
    /\ WriterUnchanged

\* lines 28-31: one iteration of the frontend loop
WriteFrontendFile ==
    /\ writer.pc = "frontend" /\ writer.i <= Len(writer.fe_code)
    /\ writer' = write_file([writer EXCEPT !.i = @ + 1],
                            Under(Artifact.frontend, writer.fe_code[writer.i]))
    /\ WriterUnchanged

\* line 28: the frontend loop is exhausted
FrontendDone ==
    /\ writer.pc = "frontend" /\ writer.i > Len(writer.fe_code)
    /\ writer' = [writer EXCEPT !.pc = "backend", !.i = 1]
    /\ WriterUnchanged

\* lines 35-38: one iteration of the backend loop
WriteBackendFile ==
    /\ writer.pc = "backend" /\ writer.i <= Len(writer.be_code)
    /\ writer' = write_file([writer EXCEPT !.i = @ + 1],
                            Under(Artifact.backend, writer.be_code[writer.i]))
    /\ WriterUnchanged

\* line 35: the backend loop is exhausted
BackendDone ==
    /\ writer.pc = "backend" /\ writer.i > Len(writer.be_code)
    /\ writer' = [writer EXCEPT !.pc = "spec", !.i = 1]
    /\ WriterUnchanged

\* lines 41-42: SPEC.md, when the state has a spec
WriteSpec ==
    /\ writer.pc = "spec"
    /\ writer' = IF writer.spec
                 THEN write_file([writer EXCEPT !.pc = "report"],
                                 [absolute |-> FALSE, segs |-> <<Artifact.spec>>])
                 ELSE [writer EXCEPT !.pc = "report"]
    /\ WriterUnchanged

\* lines 45-49: VALIDATION_REPORT.md
WriteReport ==
    /\ writer.pc = "report"
    /\ writer' = write_file([writer EXCEPT !.pc = "done"],
                            [absolute |-> FALSE, segs |-> <<Artifact.report>>])
    /\ WriterUnchanged

WriterNext ==
    \/ Scan
    \/ Confirm
    \/ Interrupt
    \/ WriteFrontendFile
    \/ FrontendDone
    \/ WriteBackendFile
    \/ BackendDone
    \/ WriteSpec
    \/ WriteReport

WriterSpec == WriterInit /\ [][WriterNext]_vars

\* every path write_artifacts is asked to write for the batch
BatchFiles(w) ==
    {Under(Artifact.frontend, w.fe_code[i]) : i \in 1..Len(w.fe_code)}
    \cup {Under(Artifact.backend, w.be_code[i]) : i \in 1..Len(w.be_code)}
    \cup (IF w.spec THEN {[absolute |-> FALSE, segs |-> <<Artifact.spec>>]} ELSE {})
    \cup {[absolute |-> FALSE, segs |-> <<Artifact.report>>]}

\* C29: when write_artifacts is over, returned or left by a path violation,
\* every file of the batch whose path resolves inside the sandbox root has
\* been written.
OtherWritesProceed ==
    writer.pc \in {"done", "ValueError"} =>
       \A f \in BatchFiles(writer) :
          LET resolved == Resolve(<<>>, JoinPath(SANDBOX_ROOT, f))
          IN  StrictlyInside(resolved) => resolved \in writer.written

\* the scan is over
Scanned == writer.pc \notin {"none", "called", "scan"}

\* C32: once the scan is over, every risky pattern found in a frontend or
\* backend file has its warning in the security_warnings of the job state; and
\* with human review off the scan never pauses or leaves write_artifacts.
WarningsRecorded ==
    /\ Scanned =>
          /\ \A i \in 1..Len(writer.fe_code) : \A p \in writer.fe_text[i] :
                <<writer.fe_code[i], p>> \in writer.security_warnings
          /\ \A i \in 1..Len(writer.be_code) : \A p \in writer.be_text[i] :
                <<writer.be_code[i], p>> \in writer.security_warnings
    /\ (Scanned /\ ~writer.review) => writer.pc \notin {"input", "KeyboardInterrupt"}

\* C33: with human review on and at least one warning, nothing is written
\* before the confirmation; with no warning, or with review off, the writer
\* never waits for one.
NoWriteBeforeConfirmation ==
    /\ (Scanned /\ writer.review /\ writer.warnings # {} /\ ~writer.confirmed)
          => writer.written = {}
    /\ (Scanned /\ (writer.warnings = {} \/ ~writer.review))
          => (writer.pc \notin {"input", "KeyboardInterrupt"} /\ ~writer.confirmed)

\* files are written after a confirmed pause
WrittenAfterConfirmation ==
    /\ writer.pc = "done" /\ writer.review /\ writer.warnings # {}
    /\ writer.confirmed /\ writer.written # {}

(***************************************************************************)
(* security/guardrails.py: sanitize_input.  A text is the sequence of its  *)
(* characters; the six patterns are matched character by character, the    *)
(* way re.sub scans: leftmost match first, greedy repetition with          *)
(* backtracking, non-overlapping matches, letters compared without case.   *)
(***************************************************************************)
\* re.IGNORECASE: a letter of the text is compared in lower case
lower(c) ==
    LET LowerOf ==
        ("A" :> "a") @@ ("B" :> "b") @@ ("C" :> "c") @@ ("D" :> "d") @@
        ("E" :> "e") @@ ("F" :> "f") @@ ("G" :> "g") @@ ("H" :> "h") @@
        ("I" :> "i") @@ ("J" :> "j") @@ ("K" :> "k") @@ ("L" :> "l") @@
        ("M" :> "m") @@ ("N" :> "n") @@ ("O" :> "o") @@ ("P" :> "p") @@
        ("Q" :> "q") @@ ("R" :> "r") @@ ("S" :> "s") @@ ("T" :> "t") @@
        ("U" :> "u") @@ ("V" :> "v") @@ ("W" :> "w") @@ ("X" :> "x") @@
        ("Y" :> "y") @@ ("Z" :> "z")
    IN  IF c \in DOMAIN LowerOf THEN LowerOf[c] ELSE c

\* the backtick character
Backtick == "BACKTICK"

\* \s
IsSpace(c) == c \in {" ", "\t", "\n"}

\* the elements of a pattern: a literal character, \s+ or \s*, (...)?
Lit(c) == [kind |-> "lit", c |-> c, min |-> 0, sub |-> <<>>]
Ws(min) == [kind |-> "ws", c |-> "", min |-> min, sub |-> <<>>]
Opt(sub) == [kind |-> "opt", c |-> "", min |-> 0, sub |-> sub]
Lits(cs) == [k \in 1..Len(cs) |-> Lit(cs[k])]

\* lines 37-44, in the order sanitize_input applies them:
\*   ignore\s+(all\s+)?previous\s+instructions      system\s*:
\*   <\|im_start\|>      <\|im_end\|>      <\|endoftext\|>
\*   three backticks, \s*, system
INJECTION_PATTERNS ==
    <<Lits(<<"i", "g", "n", "o", "r", "e">>) \o <<Ws(1)>>
         \o <<Opt(Lits(<<"a", "l", "l">>) \o <<Ws(1)>>)>>
         \o Lits(<<"p", "r", "e", "v", "i", "o", "u", "s">>) \o <<Ws(1)>>
         \o Lits(<<"i", "n", "s", "t", "r", "u", "c", "t", "i", "o", "n", "s">>),
      Lits(<<"s", "y", "s", "t", "e", "m">>) \o <<Ws(0), Lit(":")>>,
      Lits(<<"<", "|", "i", "m", "_", "s", "t", "a", "r", "t", "|", ">">>),
      Lits(<<"<", "|", "i", "m", "_", "e", "n", "d", "|", ">">>),
      Lits(<<"<", "|", "e", "n", "d", "o", "f", "t", "e", "x", "t", "|",
              ">">>),
      Lits(<<Backtick, Backtick, Backtick>>) \o <<Ws(0)>>
         \o Lits(<<"s", "y", "s", "t", "e", "m">>)>>

\* the whitespace characters of text from position i on
RECURSIVE SpaceRun(_, _)
SpaceRun(text, i) ==
    IF i <= Len(text) /\ IsSpace(text[i]) THEN 1 + SpaceRun(text, i + 1) ELSE 0

\* the match of pat at position i of text: the position after the match,
\* 0 when there is none
RECURSIVE match(_, _, _)
RECURSIVE match_spaces(_, _, _, _, _)
match(pat, text, i) ==
    IF Len(pat) = 0 THEN i
    ELSE LET e == Head(pat)
             rest == Tail(pat)
         IN  CASE e.kind = "lit" ->
                    IF i <= Len(text) /\ lower(text[i]) = e.c
                    THEN match(rest, text, i + 1)
                    ELSE 0
               [] e.kind = "ws" ->
                    match_spaces(rest, text, i, SpaceRun(text, i), e.min)
               [] e.kind = "opt" ->
                    LET taken == match(e.sub \o rest, text, i)
                    IN  IF taken # 0 THEN taken ELSE match(rest, text, i)

\* greedy: the longest run of whitespace first, then one character less
match_spaces(rest, text, i, n, min) ==
    IF n < min THEN 0
    ELSE LET end == match(rest, text, i + n)
         IN  IF end # 0 THEN end ELSE match_spaces(rest, text, i, n - 1, min)

\* pattern.sub(repl, text) from position i on: the scan looks for the
\* leftmost match starting at i or later, copies the text before it, puts
\* repl in its place and goes on after the match
RECURSIVE sub(_, _, _, _)
sub(pat, repl, text, i) ==
    LET starts == {k \in i..Len(text) : match(pat, text, k) # 0}
    IN  IF starts = {} THEN SubSeq(text, i, Len(text))
        ELSE LET k == CHOOSE x \in starts : \A y \in starts : x <= y
             IN  SubSeq(text, i, k - 1) \o repl \o sub(pat, repl, text, match(pat, text, k))

\* a replacement that leaves nothing where the match was
REDACTED_dropped == <<>>

\* line 51: the replacement text
REDACTED ==
    <<"[", "R", "E", "D", "A", "C", "T", "E", "D", "]">>

\* lines 49-52
RECURSIVE sanitize_from(_, _)
sanitize_from(patterns, sanitized) ==
    IF Len(patterns) = 0 THEN sanitized
    ELSE sanitize_from(Tail(patterns), sub(Head(patterns), REDACTED, sanitized, 1))

sanitize_input(text) == sanitize_from(INJECTION_PATTERNS, text)

\* the pieces the input texts are put together from: a match of each
\* pattern (mixed case, several whitespace characters), the two halves of a
\* match, a match inside the halves of another one, the marker, plain text
Pieces ==
    {<<"i", "g", "n", "o", "r", "e", " ", " ", "A", "L", "L", " ", "p",
       "r", "e", "v", "i", "o", "u", "s", "\n", "i", "n", "s", "t", "r",
       "u", "c", "t", "i", "o", "n", "s">>,
     <<"I", "g", "n", "o", "r", "e", " ", "p", "r", "e", "v", "i", "o",
       "u", "s", " ", "i", "n", "s", "t", "r", "u", "c", "t", "i", "o",
       "n", "s">>,
     <<"S", "y", "s", "t", "e", "m", " ", ":">>,
     <<"s", "y", "s">>,
     <<"t", "e", "m", ":">>,
     <<"s", "y", "s", "s", "y", "s", "t", "e", "m", ":", "t", "e", "m", ":">>,
     <<"<", "|", "i", "m", "_", "s", "t", "a", "r", "t", "|", ">">>,
     <<"<", "|", "I", "M", "_", "E", "N", "D", "|", ">">>,
     <<"<", "|", "e", "n", "d", "o", "f", "t", "e", "x", "t", "|", ">">>,
     <<"<", "|", "i", "m", "_", "<", "|", "e", "n", "d", "o", "f", "t",
       "e", "x", "t", "|", ">", "s", "t", "a", "r", "t", "|", ">">>,
     <<Backtick, Backtick, Backtick, " ", "s", "y", "s", "t", "e", "m">>,
     <<Backtick, Backtick, Backtick>>,
     <<"[", "R", "E", "D", "A", "C", "T", "E", "D", "]">>,
     <<"b", "u", "i", "l", "d", " ", "a", " ", "t", "o", "d", "o", " ",
       "a", "p", "p", " ">>}

RECURSIVE Concat(_)
Concat(ps) == IF Len(ps) = 0 THEN <<>> ELSE Head(ps) \o Concat(Tail(ps))

SanitizeInit ==
    /\ \E ps \in SeqsUpTo(Pieces, MaxPieces) :
          probe = [pc |-> "call", text |-> Concat(ps), once |-> <<>>, twice |-> <<>>]
    /\ state = InitialState(MaxMaxRetries, LargeBudget)
    /\ node = "orchestrator"
    /\ steps = 0
    /\ last = NoLast
    /\ request_timestamps = <<>>
    /\ token_usage = EmptyDict
    /\ now = 0
    /\ prompt_ok = [a \in Agents |-> TRUE]
    /\ usage = [input_tokens |-> 0, output_tokens |-> 0]
    /\ job = NewJob
    /\ call = NoCall
    /\ limiter = NoLimiter
    /\ worker = Idle
    /\ queue = Idle
    /\ store = Idle
    /\ writer = Idle

\* sanitize_input(text)
Sanitize ==
    /\ probe.pc = "call"
    /\ probe' = [probe EXCEPT !.pc = "once", !.once = sanitize_input(probe.text)]
    /\ ProbeUnchanged

\* sanitize_input applied to its own result
SanitizeAgain ==
    /\ probe.pc = "once"
    /\ probe' = [probe EXCEPT !.pc = "twice", !.twice = sanitize_input(probe.once)]
    /\ ProbeUnchanged

SanitizeNext == Sanitize \/ SanitizeAgain

SanitizeSpec == SanitizeInit /\ [][SanitizeNext]_vars

\* pattern.search(text) is not None for one of the patterns
AnyPatternFound(text) ==
    \E k \in 1..Len(INJECTION_PATTERNS), i \in 1..Len(text) :
       match(INJECTION_PATTERNS[k], text, i) # 0

\* C30: sanitize_input(sanitize_input(x)) = sanitize_input(x) for every
\* input text x, and no injection pattern matches anywhere in
\* sanitize_input(x): the redaction marker put in place of a match neither
\* creates nor exposes a new match.
SanitizeIdempotent ==
    /\ probe.pc \in {"once", "twice"} => ~AnyPatternFound(probe.once)
    /\ probe.pc = "twice" => probe.twice = probe.once

\* an input with a match inside the two halves of another match has been
\* sanitized twice: only the marker keeps the halves apart
SanitizeWitness ==
    /\ probe.pc = "twice"
    /\ probe.once # probe.text
    /\ probe.twice = probe.once
    /\ LET marker == Lits([k \in 1..Len(REDACTED) |-> lower(REDACTED[k])])
       IN  AnyPatternFound(sub(marker, <<>>, probe.once, 1))

(***************************************************************************)
(* graph.py: the _guarded wrapper's sanitization, over the orchestrator    *)
(* passes of one job.  The graph is StateGraph(AgentState): what a node    *)
(* returns is written to the keys AgentState declares, and the next node   *)
(* is given those keys.                                                    *)
(***************************************************************************)
\* state.py lines 6-40: the keys of AgentState
AgentStateKeys ==
    {"job_id", "user_id", "user_request", "spec", "pages", "endpoints",
     "data_models", "fe_code", "be_code", "validation_passed",
     "validation_report", "validation_target", "current_agent", "retry_count",
     "max_retries", "total_tokens", "token_budget", "error", "done",
     "cost_usd", "cost_breakdown", "agent_tokens", "model_used", "job_status",
     "security_warnings"}

\* main.py lines 84-110: initial_state carries the request as the caller
\* typed it and no _input_sanitized key
GuardInit ==
    /\ \E ps \in SeqsUpTo(Pieces, MaxPieces) :
          probe = [pc |-> "orchestrator", request |-> Concat(ps),
                   user_request |-> Concat(ps), input_sanitized |-> FALSE,
                   sanitize_calls |-> 0, passes |-> 0]
    /\ state = InitialState(MaxMaxRetries, LargeBudget)
    /\ node = "orchestrator"
    /\ steps = 0
    /\ last = NoLast
    /\ request_timestamps = <<>>
    /\ token_usage = EmptyDict
    /\ now = 0
    /\ prompt_ok = [a \in Agents |-> TRUE]
    /\ usage = [input_tokens |-> 0, output_tokens |-> 0]
    /\ job = NewJob
    /\ call = NoCall
    /\ limiter = NoLimiter
    /\ worker = Idle
    /\ queue = Idle
    /\ store = Idle
    /\ writer = Idle

\* lines 54-60 and 72 for the orchestrator node: sanitize unless the state
\* it was given has _input_sanitized, run the agent on {**state,
\* user_request, _input_sanitized: True}, return the agent's {**state, ...};
\* the graph keeps the keys of AgentState
GuardedOrchestrator ==
    /\ probe.pc = "orchestrator"
    /\ probe.passes < MaxPasses
    /\ probe' =
          IF ~probe.input_sanitized
          THEN [probe EXCEPT !.pc = "step",
                             !.user_request = sanitize_input(probe.user_request),
                             !.input_sanitized = "_input_sanitized" \in AgentStateKeys,
                             !.sanitize_calls = @ + 1,
                             !.passes = @ + 1]
          ELSE [probe EXCEPT !.pc = "step", !.passes = @ + 1]
    /\ ProbeUnchanged

\* lines 54-60 and 72 for a step node: no sanitization, the agent reads
\* state["user_request"]; the edge of lines 111-112 leads back
GuardedStep ==
    /\ probe.pc = "step"
    /\ probe' = [probe EXCEPT !.pc = "orchestrator"]
    /\ ProbeUnchanged

GuardNext == GuardedOrchestrator \/ GuardedStep

GuardSpec == GuardInit /\ [][GuardNext]_vars

\* C31: every step sees the sanitized request, and sanitize_input is
\* applied once per job: not again on a later pass through the orchestrator.
SanitizedOncePerJob ==
    /\ probe.pc = "step" => probe.user_request = sanitize_input(probe.request)
    /\ probe.sanitize_calls <= 1

(***************************************************************************)
(* Budget, cost and retry accounting over whole jobs.                      *)
(***************************************************************************)
\* the smallest n with n * c >= b, for c > 0
SmallestCount(b, c) == (b + c - 1) \div c

\* C34: when every call consumes c = CallTokens > 0 tokens, the job makes at
\* most the smallest number n of calls with n * c >= token_budget, and a stop
\* on the budget check comes after exactly n calls.
BudgetStopsAtSmallestCount ==
    CallTokens > 0 =>
       LET n == SmallestCount(state.token_budget, CallTokens)
       IN  /\ state.total_tokens <= n * CallTokens
           /\ last.path = "budget" => state.total_tokens = n * CallTokens

\* C35: after every node execution, on success, schema-failure and
\* early-termination paths alike, cost_usd is the sum of the values of
\* cost_breakdown (amounts in exact micro-dollars).
CostAccounted == state.cost_usd = SumValues(state.cost_breakdown)

\* a step whose output failed the schema, in a job that has paid for calls
\* of two agents or more
CostAccountedWitness ==
    /\ last.path = "invalid"
    /\ state.cost_usd > 0
    /\ Cardinality(DOMAIN state.cost_breakdown) >= 2

\* C36: when a call has returned, the cost added to the cost_breakdown entry
\* of the step that made it is the cost at the pricing of the backend that
\* served the successful attempt, fallback attempts included.
CostByServingBackend ==
    call.status = "returned" =>
       LET served == call.tried[Len(call.tried)].model
           added == Get(state.cost_breakdown, call.agent, 0)
                       - Get(call.before.cost_breakdown, call.agent, 0)
       IN  added = calculate_cost(served, usage.input_tokens, usage.output_tokens)

\* C37: retry_count never exceeds max_retries, and an orchestrator run that
\* begins with retry_count >= max_retries does not increment it.
RetryCountBounded ==
    [][/\ state'.retry_count <= state'.max_retries
       /\ (OrchestratorRuns /\ state.retry_count >= state.max_retries)
             => state'.retry_count = state.retry_count]_vars

\* the retries are used up: the last one allowed was dispatched
RetryCountBoundedWitness ==
    /\ state.max_retries > 0
    /\ state.retry_count = state.max_retries
    /\ last.node = "orchestrator" /\ last.path = "max_retries"

\* C38: a job is not ended with "Max retries exceeded" while the artifacts
\* regenerated by its most recent retry dispatch are unvalidated: the
\* validator has run since the last increment of retry_count.
RetryValidatedBeforeStop ==
    (last.node = "orchestrator" /\ last.path = "max_retries") => ~last.unvalidated

\* C39: every run of the orchestrator that passes the rate-limit check adds
\* exactly one entry, the current time, to the caller's pruned window, for
\* the runs of one and the same job as well; the window never holds more
\* than RATE_LIMIT_REQUESTS_PER_MINUTE entries of the last 60 seconds, and a
\* run that finds it full records nothing and ends the job with
\* "Rate limit exceeded".
EveryDecisionCounted ==
    [][/\ (OrchestratorRuns /\ check_rate_limit_admits(request_timestamps, now))
             => request_timestamps' =
                   Append(Prune(request_timestamps, now, RequestWindow), now)
       /\ (OrchestratorRuns /\ ~check_rate_limit_admits(request_timestamps, now))
             => /\ request_timestamps' = Prune(request_timestamps, now, RequestWindow)
                /\ state'.error = "Rate limit exceeded"
                /\ state'.done
                /\ node' = "END"
       /\ Len(Prune(request_timestamps', now', RequestWindow))
             <= RATE_LIMIT_REQUESTS_PER_MINUTE]_vars

\* a job is ended by the rate limit after its own decisions filled the window
EveryDecisionCountedWitness ==
    /\ last.node = "orchestrator" /\ last.path = "rate_limit"
    /\ state.error = "Rate limit exceeded"
    /\ steps >= 3
    /\ Len(request_timestamps) = RATE_LIMIT_REQUESTS_PER_MINUTE

\* the fields a step may change when its output fails the schema
FailureFields == {"error", "total_tokens", "cost_usd", "cost_breakdown", "agent_tokens"}

\* C40: a planner, fe_executor or be_executor run whose output fails the
\* schema leaves spec, pages, endpoints, data_models, fe_code, be_code,
\* retry_count, validation_passed, validation_target and every other field
\* but error and the token and cost counters unchanged, and adds the usage of
\* the failed call to the counters.
SchemaFailureFrame ==
    [][(NodeRuns /\ last'.path = "invalid" /\ last'.node \in RetryTargets) =>
          /\ \A f \in (DOMAIN state) \ FailureFields : state'[f] = state[f]
          /\ state'.error # ""
          /\ state'.total_tokens = state.total_tokens + CallTokens
          /\ Get(state'.agent_tokens, last'.node, 0)
                = Get(state.agent_tokens, last'.node, 0) + CallTokens
          /\ state'.cost_usd - state.cost_usd
                = Get(state'.cost_breakdown, last'.node, 0)
                     - Get(state.cost_breakdown, last'.node, 0)
          /\ (CallTokens > 0) => state'.cost_usd > state.cost_usd]_vars

\* an executor run fails the schema in a job that has a spec and pays for calls
SchemaFailureFrameWitness ==
    /\ last.node \in {"fe_executor", "be_executor"} /\ last.path = "invalid"
    /\ state.spec # "" /\ state.pages # <<>>
    /\ state.error # ""
    /\ CallTokens > 0

====
